---- MODULE Spec2Model ----
(***************************************************************************)
(* kasperl: the run driver (api/_exec.py), the generator base classes      *)
(* (api/_generator.py) and the generator plugins (generator/*.py).         *)
(*                                                                         *)
(* Strings are sequences of one-character strings, so that str.replace,    *)
(* str.startswith, str.endswith, str.strip and shlex.quote are modelled by *)
(* what they do to the characters.  A dict is a sequence of [var, val]     *)
(* records with pairwise different var fields, in insertion order.         *)
(***************************************************************************)
EXTENDS Integers, Sequences, FiniteSets, TLC

\* ---------------------------------------------------------------- bounds
MaxPieces == 2        \* pieces of a template token        (SpecExpand)
MaxTemplate == 2      \* tokens per template               (SpecExpand)
MaxGenerators == 2    \* --exec_generator occurrences      (Spec)
MaxLines == 2         \* lines / rows of a generator file  (Spec, SpecGen)
MaxCalls == 3         \* generate() calls on one generator (SpecGen)
MaxSubFlow == 3       \* plugins of a sub-flow              (SpecTrigger, SpecSubProcess)
MaxBatch == 2         \* items of an incoming batch         (SpecTrigger, SpecSubProcess)
MaxProcess == 2       \* process calls on one filter        (SpecTrigger, SpecSubProcess)
MaxInvocations == 2   \* top-level pipeline invocations     (SpecStorage)
MaxPolls == 3         \* read calls on one get-email reader (SpecGetEmail)
MaxFiles == 2         \* files that turn up in the watched directory (SpecWatchDir)
MaxTime == 4          \* the last tick of the clock             (SpecCron)

\* ------------------------------------------------------------- strings
None == <<"None">>

RECURSIVE Concat(_)
Concat(ss) == IF ss = <<>> THEN <<>> ELSE Head(ss) \o Concat(Tail(ss))

StartsWith(s, p) == Len(p) <= Len(s) /\ SubSeq(s, 1, Len(p)) = p

EndsWith(s, p) == Len(p) <= Len(s) /\ SubSeq(s, Len(s) - Len(p) + 1, Len(s)) = p

\* old occurs in s as a substring
Contains(s, old) == \E i \in 1..(Len(s) - Len(old) + 1) : SubSeq(s, i, i + Len(old) - 1) = old

\* Python str.replace(old, new) for a non-empty old: leftmost occurrences,
\* not overlapping, the inserted text is not searched again
RECURSIVE Replace(_, _, _)
Replace(s, old, new) ==
    IF Len(s) < Len(old) THEN s
    ELSE IF SubSeq(s, 1, Len(old)) = old
         THEN new \o Replace(SubSeq(s, Len(old) + 1, Len(s)), old, new)
         ELSE <<Head(s)>> \o Replace(Tail(s), old, new)

\* "{%s}" % var
Placeholder(var) == <<"{">> \o var \o <<"}">>

\* --------------------------------------------------------- _expand_vars
\* the inner loop of _expand_vars: for var in vars_ (from index k on)
RECURSIVE ExpandArgFrom(_, _, _)
ExpandArgFrom(arg, vars_, k) ==
    IF k > Len(vars_) THEN arg
    ELSE ExpandArgFrom(Replace(arg, Placeholder(vars_[k].var), vars_[k].val), vars_, k + 1)

\* faulty variant: the variables are applied a second time to the result
ExpandArgTwice(arg, vars_) == ExpandArgFrom(ExpandArgFrom(arg, vars_, 1), vars_, 1)

ExpandArg(arg, vars_) == ExpandArgFrom(arg, vars_, 1)

\* faulty variant: arguments that expand to the empty string are dropped
NonEmpty(arg) == arg # <<>>
ExpandVarsDropEmpty(pipeline, vars_) ==
    SelectSeq([i \in 1..Len(pipeline) |-> ExpandArg(pipeline[i], vars_)], NonEmpty)

ExpandVars(pipeline, vars_) == [i \in 1..Len(pipeline) |-> ExpandArg(pipeline[i], vars_)]

\* ------------------------------------------------------- shlex.join
\* the characters of the model's alphabet that shlex.quote leaves bare
UnsafeChars == {"{", "}", " ", "'", "#"}

Quote(s) ==
    IF s = <<>> THEN <<"'", "'">>
    ELSE IF \A i \in 1..Len(s) : s[i] \notin UnsafeChars THEN s
    ELSE <<"'">> \o Replace(s, <<"'">>, <<"'", "\"", "'", "\"", "'">>) \o <<"'">>

RECURSIVE ShlexJoin(_)
ShlexJoin(tokens) ==
    IF tokens = <<>> THEN <<>>
    ELSE IF Len(tokens) = 1 THEN Quote(tokens[1])
    ELSE Quote(Head(tokens)) \o <<" ">> \o ShlexJoin(Tail(tokens))

\* -------------------------------------------------------- generators
\* A generator object: kind is the plugin name, var_name the -n option
\* (None when not supplied), fstate what os.path says about its file,
\* lines the lines of a text file, rows the rows csv.DictReader yields.
Msg(text) == <<text>>

\* str.strip() over the model's alphabet (blank is the only whitespace)
RECURSIVE Strip(_)
Strip(s) ==
    IF s = <<>> THEN s
    ELSE IF Head(s) = " " THEN Strip(Tail(s))
    ELSE IF s[Len(s)] = " " THEN Strip(SubSeq(s, 1, Len(s) - 1))
    ELSE s

\* Generator._check
GeneratorCheck(g) == None

\* SingleVariableGenerator._check
SingleVariableCheck(g) == IF g.var_name = None THEN Msg("No variable name provided!") ELSE GeneratorCheck(g)

\* the file tests shared by TextFileGenerator._check and CsvFileGenerator._check
FileCheck(g, result, missing, isdir) ==
    IF result = None
    THEN IF g.fstate = "missing" THEN Msg(missing)
         ELSE IF g.fstate = "dir" THEN Msg(isdir)
         ELSE result
    ELSE result

\* _check of the plugin class of g
Check(g) ==
    IF g.kind = "text-file"
    THEN FileCheck(g, SingleVariableCheck(g), "Text file does not exist", "Text file points to a directory")
    ELSE FileCheck(g, GeneratorCheck(g), "CSV file does not exist", "CSV file points to a directory")

\* TextFileGenerator._do_generate
RECURSIVE TextFileDoGenerate(_, _)
TextFileDoGenerate(var_name, lines) ==
    IF lines = <<>> THEN <<>>
    ELSE LET value == Strip(Head(lines))
             rest == TextFileDoGenerate(var_name, Tail(lines))
         IN  IF value = <<>> \/ StartsWith(value, <<"#">>) THEN rest
             ELSE << <<[var |-> var_name, val |-> value]>> >> \o rest

\* CsvFileGenerator._do_generate
CsvFileDoGenerate(rows) == rows

DoGenerate(g) ==
    IF g.kind = "text-file" THEN TextFileDoGenerate(g.var_name, g.lines)
    ELSE CsvFileDoGenerate(g.rows)

\* faulty variant: the result of the check is ignored
GenerateUnchecked(g) ==
    [raised |-> None, result |-> DoGenerate(g), called |-> <<"_check", "_do_generate">>]

\* Generator.generate: called lists the hooks called, in order
Generate(g) ==
    LET msg == Check(g)
    IN  IF msg # None
        THEN [raised |-> msg, result |-> <<>>, called |-> <<"_check">>]
        ELSE [raised |-> None, result |-> DoGenerate(g), called |-> <<"_check", "_do_generate">>]

\* ------------------------------------- compile_generator_vars_list
\* faulty variant: an existing key keeps its value (first writer wins)
PutKeep(d, k, v) ==
    IF \E i \in 1..Len(d) : d[i].var = k
    THEN d
    ELSE Append(d, [var |-> k, val |-> v])

\* dict.update of one key: an existing key keeps its place and takes the
\* new value, a new key goes to the end
Put(d, k, v) ==
    IF \E i \in 1..Len(d) : d[i].var = k
    THEN [i \in 1..Len(d) |-> IF d[i].var = k THEN [var |-> k, val |-> v] ELSE d[i]]
    ELSE Append(d, [var |-> k, val |-> v])

\* the outer binding updated with the inner one
RECURSIVE Merge(_, _)
Merge(outer, inner) ==
    IF inner = <<>> THEN outer
    ELSE Merge(Put(outer, Head(inner).var, Head(inner).val), Tail(inner))

\* one outer binding against every inner binding, in the inner order
RECURSIVE NestInner(_, _)
NestInner(o, inner_list) ==
    IF inner_list = <<>> THEN <<>>
    ELSE <<Merge(o, Head(inner_list))>> \o NestInner(o, Tail(inner_list))

\* every outer binding in turn, the inner list nested inside it
RECURSIVE Nest(_, _)
Nest(outer_list, inner_list) ==
    IF outer_list = <<>> THEN <<>>
    ELSE NestInner(Head(outer_list), inner_list) \o Nest(Tail(outer_list), inner_list)

\* the lists of the generators combined left to right, the first outermost
RECURSIVE Combine(_, _)
Combine(acc, lists) ==
    IF lists = <<>> THEN acc
    ELSE Combine(Nest(acc, Head(lists)), Tail(lists))

\* the generators run left to right; the first failing check raises
RECURSIVE GenerateAll(_)
GenerateAll(gens) ==
    IF gens = <<>> THEN [raised |-> None, lists |-> <<>>]
    ELSE LET r == Generate(Head(gens))
         IN  IF r.raised # None THEN [raised |-> r.raised, lists |-> <<>>]
             ELSE LET rest == GenerateAll(Tail(gens))
                  IN  IF rest.raised # None THEN rest
                      ELSE [raised |-> None, lists |-> <<r.result>> \o rest.lists]

CompileGeneratorVarsList(gens) ==
    LET all == GenerateAll(gens)
    IN  IF all.raised # None THEN [raised |-> all.raised, result |-> <<>>]
        ELSE [raised |-> None, result |-> Combine(Head(all.lists), Tail(all.lists))]

\* ------------------------------------------------------ load_pipeline
PIPELINE_FORMAT_CMDLINE == "cmdline"
PIPELINE_FORMAT_FILE == "file"
PIPELINE_FORMATS == {PIPELINE_FORMAT_CMDLINE, PIPELINE_FORMAT_FILE}

\* the block "remove convert prog from pipeline"
RemoveConvertProg(result, remove_convert_prog, convert_prog) ==
    IF remove_convert_prog /\ Len(result) > 0 /\ StartsWith(result[1], convert_prog)
    THEN Tail(result)
    ELSE result

\* faulty variant: a format that is not known is read as a command line
LoadPipelineLenient(pipeline_, pipeline_format, remove_convert_prog, convert_prog, readable, file_args) ==
    IF pipeline_format = PIPELINE_FORMAT_FILE
    THEN IF ~readable
         THEN [raised |-> Msg("cannot read pipeline file"), result |-> <<>>]
         ELSE [raised |-> None, result |-> RemoveConvertProg(file_args, remove_convert_prog, convert_prog)]
    ELSE [raised |-> None, result |-> RemoveConvertProg(pipeline_, remove_convert_prog, convert_prog)]

\* load_pipeline for an already tokenized pipeline; file_args is what
\* load_args reads from the file, readable whether it can read it
LoadPipeline(pipeline_, pipeline_format, remove_convert_prog, convert_prog, readable, file_args) ==
    IF pipeline_format = PIPELINE_FORMAT_CMDLINE
    THEN [raised |-> None, result |-> RemoveConvertProg(pipeline_, remove_convert_prog, convert_prog)]
    ELSE IF pipeline_format = PIPELINE_FORMAT_FILE
    THEN IF ~readable
         THEN [raised |-> Msg("cannot read pipeline file"), result |-> <<>>]
         ELSE [raised |-> None, result |-> RemoveConvertProg(file_args, remove_convert_prog, convert_prog)]
    ELSE [raised |-> Msg("Unhandled pipeline format"), result |-> <<>>]

\* =================================================================
\* State
\* =================================================================
VARIABLES
    \* perform_pipeline_execution / execute_pipeline
    parsed,       \* the argparse namespace
    pre_exec,     \* the pre-execution hook, None when not supplied
    post_exec,    \* the post-execution hook, None when not supplied
    pc,           \* position in perform_pipeline_execution
    pipeline,     \* execute_pipeline: the loaded template
    vars_list,    \* execute_pipeline: the compiled binding sequence
    idx,          \* execute_pipeline: bindings the for loop has finished
    prefix,       \* execute_pipeline: the local prefix
    stdout,       \* the lines printed so far
    calls,        \* the arguments of the convert_func calls so far
    trace,        \* hook calls and loop iterations, in order
    hook_args,    \* the arguments the hooks were called with
    error,        \* the exception that left perform_pipeline_execution
    \* a direct call of _expand_vars
    tmpl,         \* its pipeline argument
    vars_,        \* its vars_ argument
    result,       \* what it returned
    expanded,     \* whether it has been called
    \* one generator object and the calls of generate() on it
    gen,          \* the object
    gen_calls,    \* number of generate() calls so far
    gen_last,     \* the last call: the object as it was, and the outcome
    \* one Trigger filter (filter/_trigger.py)
    trigger,      \* the object: sub_flow, field, comparison, value, _reader, _filter, _writer
    trg_state,    \* "constructed", "initialized" or "failed" (initialize raised)
    trg_error,    \* the message initialize raised, or None
    trg_inits,    \* sub-flow positions handed to init_initializable, in order
    trg_open,     \* sub-flow positions that are initialized and not finalized
    trg_execs,    \* the (reader, filter, writer) triples handed to execute, in order
    trg_calls,    \* number of _do_process calls so far
    trg_last,     \* the last _do_process call: its data and its outcome
    \* one SubProcess filter (filter/_sub_process.py)
    subproc,      \* the object: sub_flow, field, comparison, value, _sub_flow, _filter
    sub_state,    \* "constructed", "initialized", "failed" or "finalized"
    sub_error,    \* the message initialize raised, or None
    sub_inits,    \* filter chains handed to init_initializable, in order
    sub_finals,   \* filter chains whose finalize was called, in order
    sub_calls,    \* number of _do_process calls so far
    sub_last,     \* the last _do_process call: its data and its outcome
    \* the session storage (api/_session.py) and its reader, filter and writer
    sto_class,    \* the class attribute Session.storage: name -> object or Absent
    sto_invocation,\* number of the running top-level invocation, 0: none yet
    sto_nested,   \* whether the acting plugin belongs to a nested sub-flow
    sto_origin,   \* name -> the invocation and the plugin that stored the object
    sto_reader,   \* the last use of a from-storage reader and its outcome
    \* the Block filter (filter/_block.py)
    block,        \* the Block filter: its options
    blk_state,    \* "constructed", "initialized" or "failed"
    blk_error,    \* what initialize raised, None: nothing
    blk_calls,    \* number of process calls so far
    blk_last,     \* the last process call: its data and its outcome
    \* the get-email reader (reader/_get_email.py)
    getemail,     \* the GetEmail reader: its options and counters
    eml_state,    \* "constructed" or "initialized"
    eml_polls,    \* the read calls so far: the wait and the outcome of each
    \* the watch-dir reader (reader/_watch_dir.py)
    watchdir,     \* the WatchDir reader: its options and its _observer field
    wd_state,     \* "constructed", "initialized" or "finalized"
    wd_pc,        \* where the read loop stands
    wd_stopped,   \* session.stopped
    wd_dir,       \* the files in the watched directory
    wd_made,      \* the files that have turned up so far
    wd_files,     \* self._files
    wd_source,    \* self._base_reader.source
    wd_observers, \* the observer threads that are running
    wd_pending,   \* the file events the observers have not delivered yet
    wd_cycle,     \* the last cycle of the read loop: files handed over, files removed
    \* the cron reader (reader/_cron.py)
    cron,         \* the Cron reader: the period of its expression and its _iter
    cron_state,   \* "constructed" or "initialized"
    cron_pc,      \* where the generator of read stands
    cron_now,     \* the clock
    cron_stopped, \* session.stopped
    cron_next,    \* next_timestamp of read
    cron_out,     \* the items read has yielded: timestamp, time and stopped flag at the yield
    \* the plugins that write an output file (filter/_log_data.py, writer/_text_file.py)
    out_plugin,   \* the plugin that writes the output file: its kind and options
    out_state,    \* "constructed", "initialized" or "failed"
    out_error,    \* what initialize raised, None: nothing
    out_path,     \* what stands at the path of the output file
    out_calls     \* number of calls that handed data to the plugin

drvVars == <<parsed, pre_exec, post_exec, pc, pipeline, vars_list, idx, prefix,
             stdout, calls, trace, hook_args, error>>
expVars == <<tmpl, vars_, result, expanded>>
genVars == <<gen, gen_calls, gen_last>>
trgVars == <<trigger, trg_state, trg_error, trg_inits, trg_open, trg_execs, trg_calls, trg_last>>
subVars == <<subproc, sub_state, sub_error, sub_inits, sub_finals, sub_calls, sub_last>>
stoVars == <<sto_class, sto_invocation, sto_nested, sto_origin, sto_reader>>
blkVars == <<block, blk_state, blk_error, blk_calls, blk_last>>
emlVars == <<getemail, eml_state, eml_polls>>
wdVars == <<watchdir, wd_state, wd_pc, wd_stopped, wd_dir, wd_made, wd_files, wd_source, wd_observers, wd_pending, wd_cycle>>
cronVars == <<cron, cron_state, cron_pc, cron_now, cron_stopped, cron_next, cron_out>>
outVars == <<out_plugin, out_state, out_error, out_path, out_calls>>
vars == <<drvVars, expVars, genVars, trgVars, subVars, stoVars, blkVars, emlVars, wdVars, cronVars, outVars>>

\* ------------------------------------------------------------- inputs
A == <<"a">>
B == <<"b">>
X == <<"x">>
Y == <<"y">>

CONVERT_PROG == <<"c", "v">>

\* pipeline templates of the run driver: a pasted full invocation, a bare
\* argument list, and an invocation without arguments
Templates ==
    { << <<"c", "v">>, <<"-", "i">>, <<"{", "a", "}", "/", "{", "b", "}">> >>,
      << <<"{", "b", "}", " ", "{", "a", "}">>, X >>,
      << <<"c", "v">> >> }

Prefixes == {None, <<"p">>, <<"p", " ">>}

\* the files of the generators: the first k lines / rows of these
TextLines == <<X, <<" ", "y", " ">>, <<"#", "x">>, <<>>, Y>>
CsvRows == << <<[var |-> A, val |-> Y], [var |-> B, val |-> X]>>,
              <<[var |-> A, val |-> X], [var |-> B, val |-> Y]>>,
              <<[var |-> A, val |-> X], [var |-> B, val |-> X]>>,
              <<[var |-> A, val |-> Y], [var |-> B, val |-> Y]>>,
              <<[var |-> A, val |-> Y], [var |-> B, val |-> X]>> >>

TextGens ==
    { [kind |-> "text-file", var_name |-> n, fstate |-> "file", lines |-> SubSeq(TextLines, 1, k), rows |-> <<>>] :
        n \in {None, A}, k \in 0..MaxLines }
    \cup { [kind |-> "text-file", var_name |-> n, fstate |-> "missing", lines |-> <<>>, rows |-> <<>>] : n \in {None, A} }

CsvGens ==
    { [kind |-> "csv-file", var_name |-> None, fstate |-> "file", lines |-> <<>>, rows |-> SubSeq(CsvRows, 1, k)] :
        k \in 0..MaxLines }
    \cup { [kind |-> "csv-file", var_name |-> None, fstate |-> "missing", lines |-> <<>>, rows |-> <<>>] }

Gens == TextGens \cup CsvGens

\* one generator object per --exec_generator occurrence (required: >= 1)
GenSeqs == UNION { [1..n -> Gens] : n \in 1..MaxGenerators }

NoError == [kind |-> "none", msg |-> None, at |-> 0]

\* ------------------------------------------------ idle sub-systems
DrvIdle ==
    /\ parsed = [pipeline |-> <<>>, exec_format |-> PIPELINE_FORMAT_CMDLINE, exec_dry_run |-> FALSE,
                 exec_prefix |-> None, exec_generator |-> <<>>]
    /\ pre_exec = None /\ post_exec = None
    /\ pc = "idle" /\ pipeline = <<>> /\ vars_list = <<>> /\ idx = 0 /\ prefix = None
    /\ stdout = <<>> /\ calls = <<>> /\ trace = <<>> /\ hook_args = <<>> /\ error = NoError

ExpIdle == tmpl = <<>> /\ vars_ = <<>> /\ result = <<>> /\ expanded = FALSE

GenIdle == gen = [kind |-> "csv-file", var_name |-> None, fstate |-> "missing", lines |-> <<>>, rows |-> <<>>]
           /\ gen_calls = 0
           /\ gen_last = [obj |-> gen, out |-> [raised |-> None, result |-> <<>>, called |-> <<>>]]

NoData == [is_list |-> TRUE, items |-> <<>>]

NoTrgCall == [data |-> NoData, raised |-> None, out |-> NoData, compared |-> FALSE, executed |-> FALSE]

TrgIdle ==
    /\ trigger = [sub_flow |-> None, field |-> None, comparison |-> "==", value |-> None,
                  _reader |-> 0, _filter |-> <<>>, _writer |-> 0]
    /\ trg_state = "idle" /\ trg_error = None /\ trg_inits = <<>> /\ trg_open = {}
    /\ trg_execs = <<>>
    /\ trg_calls = 0 /\ trg_last = NoTrgCall

NoSubCall == [data |-> NoData, raised |-> None, out |-> NoData, compared |-> <<>>, applied |-> <<>>]

SubIdle ==
    /\ subproc = [sub_flow |-> None, field |-> None, comparison |-> "==", value |-> None,
                  _sub_flow |-> None, _filter |-> <<>>]
    /\ sub_state = "idle" /\ sub_error = None /\ sub_inits = <<>> /\ sub_finals = <<>>
    /\ sub_calls = 0 /\ sub_last = NoSubCall

StoIdle ==
    /\ sto_class = <<>> /\ sto_invocation = 0 /\ sto_nested = FALSE /\ sto_origin = <<>>
    /\ sto_reader = [name |-> None, loop |-> FALSE, forwarded |-> <<>>, raised |-> None]

BlkIdle ==
    /\ block = [field |-> None, comparison |-> None, value |-> None]
    /\ blk_state = "constructed" /\ blk_error = None /\ blk_calls = 0
    /\ blk_last = [data |-> NoData, raised |-> None, out |-> NoData]

EmlIdle ==
    /\ getemail = [poll_wait |-> 0, poll_wait_slow |-> 0, poll_count |-> 0, max_poll |-> 0,
                   _polled |-> 0, _empty_poll_count |-> 0, _slow_message_displayed |-> FALSE]
    /\ eml_state = "constructed" /\ eml_polls = <<>>

WdIdle ==
    /\ watchdir = [action |-> "unset", max_files |-> 0, events |-> {}, _observer |-> FALSE]
    /\ wd_state = "constructed" /\ wd_pc = "not_started" /\ wd_stopped = FALSE
    /\ wd_dir = {} /\ wd_made = {} /\ wd_files = {} /\ wd_source = {}
    /\ wd_observers = 0 /\ wd_pending = {} /\ wd_cycle = [handed |-> {}, removed |-> {}]

CronIdle ==
    /\ cron = [period |-> 1, _iter |-> 0]
    /\ cron_state = "constructed" /\ cron_pc = "not_started" /\ cron_now = 0
    /\ cron_stopped = FALSE /\ cron_next = 0 /\ cron_out = <<>>

OutIdle ==
    /\ out_plugin = [kind |-> "none", output_file |-> FALSE, delete_on_initialize |-> FALSE, append |-> FALSE]
    /\ out_state = "constructed" /\ out_error = None
    /\ out_path = [kind |-> "absent", lines |-> <<>>] /\ out_calls = 0

\* ---- end of the idle predicates

\* =================================================================
\* perform_pipeline_execution and execute_pipeline
\* =================================================================
Event(e, i) == [ev |-> e, i |-> i]

Raise(kind, msg, at) ==
    /\ pc' = "raised"
    /\ error' = [kind |-> kind, msg |-> msg, at |-> at]

DrvInit ==
    /\ parsed \in [pipeline : Templates, exec_format : PIPELINE_FORMATS \cup {"yaml"},
                   exec_dry_run : BOOLEAN, exec_prefix : Prefixes, exec_generator : GenSeqs]
    \* with the file format the positional arguments name the file
    /\ parsed.exec_format # PIPELINE_FORMAT_CMDLINE => parsed.pipeline = << <<"c", "v">> >>
    /\ pre_exec \in {None, <<"hook">>}
    /\ post_exec \in {None, <<"hook">>}
    /\ pc = "start" /\ pipeline = <<>> /\ vars_list = <<>> /\ idx = 0 /\ prefix = None
    /\ stdout = <<>> /\ calls = <<>> /\ trace = <<>> /\ hook_args = <<>> /\ error = NoError

\* faulty variant: the pre-execution hook is never called
PreExecSkipped ==
    /\ pc = "start"
    /\ pc' = "load"
    /\ UNCHANGED <<parsed, pre_exec, post_exec, pipeline, vars_list, idx, prefix, stdout, calls, trace,
                   hook_args, error>>
    /\ UNCHANGED <<expVars, genVars, trgVars, subVars, stoVars, blkVars, emlVars, wdVars, cronVars, outVars>>

\* "custom pre-execution hook?"
PreExec ==
    /\ pc = "start"
    /\ IF pre_exec # None
       THEN trace' = Append(trace, Event("pre_exec", 0)) /\ hook_args' = Append(hook_args, parsed)
       ELSE UNCHANGED <<trace, hook_args>>
    /\ pc' = "load"
    /\ UNCHANGED <<parsed, pre_exec, post_exec, pipeline, vars_list, idx, prefix, stdout, calls, error>>
    /\ UNCHANGED <<expVars, genVars, trgVars, subVars, stoVars, blkVars, emlVars, wdVars, cronVars, outVars>>

\* execute_pipeline is entered: "load pipeline"
ExecLoad ==
    /\ pc = "load"
    /\ \E readable \in BOOLEAN, file_args \in Templates :
         LET r == LoadPipeline(parsed.pipeline, parsed.exec_format, TRUE, CONVERT_PROG, readable, file_args)
         IN  IF r.raised # None
             THEN Raise("load_pipeline", r.raised, 0) /\ UNCHANGED pipeline
             ELSE pipeline' = r.result /\ pc' = "compile" /\ UNCHANGED error
    /\ prefix' = parsed.exec_prefix
    /\ UNCHANGED <<parsed, pre_exec, post_exec, vars_list, idx, stdout, calls, trace, hook_args>>
    /\ UNCHANGED <<expVars, genVars, trgVars, subVars, stoVars, blkVars, emlVars, wdVars, cronVars, outVars>>

\* "generate variables"
ExecCompile ==
    /\ pc = "compile"
    /\ LET r == CompileGeneratorVarsList(parsed.exec_generator)
       IN  IF r.raised # None
           THEN Raise("generate", r.raised, 0) /\ UNCHANGED vars_list
           ELSE vars_list' = r.result /\ pc' = "loop" /\ UNCHANGED error
    /\ UNCHANGED <<parsed, pre_exec, post_exec, pipeline, idx, prefix, stdout, calls, trace, hook_args>>
    /\ UNCHANGED <<expVars, genVars, trgVars, subVars, stoVars, blkVars, emlVars, wdVars, cronVars, outVars>>

\* the prefix as the dry-run branch leaves it
DryRunPrefix(prefix_) == IF ~EndsWith(prefix_, <<" ">>) THEN prefix_ \o <<" ">> ELSE prefix_

\* faulty variant: the list is walked from its end
LoopIndexReversed == Len(vars_list) - idx

\* "for vars_ in vars_list": the index of the binding the next pass takes
LoopIndex == idx + 1

\* the dry_run branch of the loop body
DryRunBranch(i, pipeline_exp) ==
    IF prefix # None
    THEN /\ prefix' = DryRunPrefix(prefix)
         /\ IF Len(pipeline_exp) = 0
            THEN /\ Raise("IndexError", None, i)
                 /\ trace' = Append(trace, Event("_expand_vars", i))
                 /\ UNCHANGED <<idx, stdout>>
            ELSE /\ stdout' = Append(stdout,
                        ShlexJoin([pipeline_exp EXCEPT ![1] = DryRunPrefix(prefix) \o pipeline_exp[1]]))
                 /\ trace' = trace \o <<Event("_expand_vars", i), Event("print", i)>>
                 /\ idx' = idx + 1
                 /\ UNCHANGED <<pc, error>>
         /\ UNCHANGED calls
    ELSE /\ trace' = Append(trace, Event("_expand_vars", i))
         /\ idx' = idx + 1
         /\ UNCHANGED <<pc, error, prefix, stdout, calls>>

\* faulty variant: the template is handed on instead of its expansion
ConvertBranchTemplate(i, pipeline_exp, convert_ok) ==
    /\ calls' = Append(calls, pipeline)
    /\ trace' = trace \o <<Event("_expand_vars", i), Event("convert_func", i)>>
    /\ IF convert_ok
       THEN idx' = idx + 1 /\ UNCHANGED <<pc, error>>
       ELSE Raise("convert_func", None, i) /\ UNCHANGED idx
    /\ UNCHANGED <<prefix, stdout>>

\* faulty variant: a failure of convert_func is caught and the loop goes on
ConvertBranchCaught(i, pipeline_exp, convert_ok) ==
    /\ calls' = Append(calls, pipeline_exp)
    /\ trace' = trace \o <<Event("_expand_vars", i), Event("convert_func", i)>>
    /\ idx' = idx + 1
    /\ IF convert_ok
       THEN UNCHANGED <<pc, error>>
       ELSE error' = [kind |-> "convert_func", msg |-> None, at |-> i] /\ UNCHANGED pc
    /\ UNCHANGED <<prefix, stdout>>

\* the else branch of the loop body: convert_func(pipeline_exp), which
\* returns (convert_ok) or raises
ConvertBranch(i, pipeline_exp, convert_ok) ==
    /\ calls' = Append(calls, pipeline_exp)
    /\ trace' = trace \o <<Event("_expand_vars", i), Event("convert_func", i)>>
    /\ IF convert_ok
       THEN idx' = idx + 1 /\ UNCHANGED <<pc, error>>
       ELSE Raise("convert_func", None, i) /\ UNCHANGED idx
    /\ UNCHANGED <<prefix, stdout>>

\* one pass of "for vars_ in vars_list"
ExecIteration(convert_ok) ==
    LET i == LoopIndex
        pipeline_exp == ExpandVars(pipeline, vars_list[i])
    IN  IF parsed.exec_dry_run
        THEN DryRunBranch(i, pipeline_exp)
        ELSE ConvertBranch(i, pipeline_exp, convert_ok)

ExecLoop ==
    /\ pc = "loop"
    /\ idx < Len(vars_list)
    /\ \E convert_ok \in BOOLEAN : ExecIteration(convert_ok)
    /\ UNCHANGED <<parsed, pre_exec, post_exec, pipeline, vars_list, hook_args>>
    /\ UNCHANGED <<expVars, genVars, trgVars, subVars, stoVars, blkVars, emlVars, wdVars, cronVars, outVars>>

\* the loop is over, execute_pipeline returns: "custom post-execution hook?"
PostExec ==
    /\ pc = "loop"
    /\ idx = Len(vars_list)
    /\ IF post_exec # None
       THEN trace' = Append(trace, Event("post_exec", 0)) /\ hook_args' = Append(hook_args, parsed)
       ELSE UNCHANGED <<trace, hook_args>>
    /\ pc' = "done"
    /\ UNCHANGED <<parsed, pre_exec, post_exec, pipeline, vars_list, idx, prefix, stdout, calls, error>>
    /\ UNCHANGED <<expVars, genVars, trgVars, subVars, stoVars, blkVars, emlVars, wdVars, cronVars, outVars>>

Init == DrvInit /\ ExpIdle /\ GenIdle /\ TrgIdle /\ SubIdle /\ StoIdle /\ BlkIdle /\ EmlIdle /\ WdIdle /\ CronIdle /\ OutIdle

Next == PreExec \/ ExecLoad \/ ExecCompile \/ ExecLoop \/ PostExec

Spec == Init /\ [][Next]_vars

\* =================================================================
\* _expand_vars called directly, on every template and binding
\* =================================================================
Names == {A, B}

\* the building blocks of template tokens and of bound values
Pieces == { Placeholder(A), Placeholder(B), X, <<"{">> }

StringsOf(n) == UNION { { Concat(ps) : ps \in [1..k -> Pieces] } : k \in 0..n }

Tokens == StringsOf(MaxPieces)
Values == StringsOf(1)

\* the templates: _expand_vars treats each token on its own, so one token
\* of up to MaxPieces pieces is followed by tokens of at most one piece
ExpTemplates ==
    { <<>> } \cup
    { <<t>> \o rest : t \in Tokens, rest \in UNION { [1..k -> StringsOf(1)] : k \in 0..(MaxTemplate - 1) } }

\* dicts over Names: the keys differ pairwise, the order is the insertion order
Bindings ==
    { b \in UNION { [1..k -> [var : Names, val : Values]] : k \in 0..Cardinality(Names) } :
        \A i, j \in 1..Len(b) : i # j => b[i].var # b[j].var }

ExpInit ==
    /\ tmpl \in ExpTemplates
    /\ vars_ \in Bindings
    /\ result = <<>>
    /\ expanded = FALSE

\* result = _expand_vars(tmpl, vars_)
ExpandCall ==
    /\ ~expanded
    /\ result' = ExpandVars(tmpl, vars_)
    /\ expanded' = TRUE
    /\ UNCHANGED <<tmpl, vars_>>
    /\ UNCHANGED <<drvVars, genVars, trgVars, subVars, stoVars, blkVars, emlVars, wdVars, cronVars, outVars>>

InitExpand == ExpInit /\ DrvIdle /\ GenIdle /\ TrgIdle /\ SubIdle /\ StoIdle /\ BlkIdle /\ EmlIdle /\ WdIdle /\ CronIdle /\ OutIdle

NextExpand == ExpandCall

SpecExpand == InitExpand /\ [][NextExpand]_vars

\* =================================================================
\* one generator object: configured, then generate() called on it
\* =================================================================
LineChoices == { X, <<" ", "y", " ">>, <<"#", "x">>, <<>> }

FilesOf(contents) ==
    { [fstate |-> "file", content |-> c] : c \in contents }
    \cup { [fstate |-> f, content |-> <<>>] : f \in {"missing", "dir"} }

TextFiles == FilesOf(UNION { [1..k -> LineChoices] : k \in 0..MaxLines })
CsvFiles == FilesOf({ SubSeq(CsvRows, 1, k) : k \in 0..MaxLines })

GenObjs ==
    { [kind |-> "text-file", var_name |-> n, fstate |-> f.fstate, lines |-> f.content, rows |-> <<>>] :
        n \in Names \cup {None}, f \in TextFiles }
    \cup { [kind |-> "csv-file", var_name |-> None, fstate |-> f.fstate, lines |-> <<>>, rows |-> f.content] :
        f \in CsvFiles }

NoCall == [raised |-> None, result |-> <<>>, called |-> <<>>]

GenInit ==
    /\ gen \in GenObjs
    /\ gen_calls = 0
    /\ gen_last = [obj |-> gen, out |-> NoCall]

\* SingleVariableGenerator._apply_args: self.var_name = ns.var_name
ApplyArgs ==
    /\ gen.kind = "text-file"
    /\ \E n \in Names \cup {None} :
         /\ n # gen.var_name
         /\ gen' = [gen EXCEPT !.var_name = n]
    /\ UNCHANGED <<gen_calls, gen_last>>
    /\ UNCHANGED <<drvVars, expVars, trgVars, subVars, stoVars, blkVars, emlVars, wdVars, cronVars, outVars>>

\* generate() called on the object
GenerateCall ==
    /\ gen_calls < MaxCalls
    /\ gen_last' = [obj |-> gen, out |-> Generate(gen)]
    /\ gen_calls' = gen_calls + 1
    /\ UNCHANGED gen
    /\ UNCHANGED <<drvVars, expVars, trgVars, subVars, stoVars, blkVars, emlVars, wdVars, cronVars, outVars>>

InitGen == GenInit /\ DrvIdle /\ ExpIdle /\ TrgIdle /\ SubIdle /\ StoIdle /\ BlkIdle /\ EmlIdle /\ WdIdle /\ CronIdle /\ OutIdle

NextGen == ApplyArgs \/ GenerateCall

SpecGen == InitGen /\ [][NextGen]_vars

\* =================================================================
\* Properties
\* =================================================================
Keys(d) == { d[i].var : i \in 1..Len(d) }

Get(d, k) == d[CHOOSE i \in 1..Len(d) : d[i].var = k].val

IsExpandEv(e) == e.ev = "_expand_vars"
IsConvertEv(e) == e.ev = "convert_func"
IsPrintEv(e) == e.ev = "print"
IsHookEv(e) == e.ev \in {"pre_exec", "post_exec"}

\* the bindings the for loop has taken so far, by their index in vars_list
Iterated == [k \in 1..Len(SelectSeq(trace, IsExpandEv)) |-> SelectSeq(trace, IsExpandEv)[k].i]

Compiled == pc \in {"loop", "done"} \/ (pc = "raised" /\ error.kind \in {"convert_func", "IndexError"})

TwoGenerators == Compiled /\ Len(parsed.exec_generator) = 2

OuterList == DoGenerate(parsed.exec_generator[1])
InnerList == DoGenerate(parsed.exec_generator[2])

\* C1: with two generator specs producing m and n bindings, the sequence
\* execute_pipeline iterates over has m*n elements, element i*n+j being the
\* merge of outer binding i with inner binding j, and the loop takes them in
\* that order.
C1_OuterMajor ==
    TwoGenerators =>
        LET m == Len(OuterList)
            n == Len(InnerList)
        IN  /\ Len(vars_list) = m * n
            /\ \A i \in 0..(m - 1), j \in 0..(n - 1) :
                 vars_list[i * n + j + 1] = Merge(OuterList[i + 1], InnerList[j + 1])
            /\ Iterated = [k \in 1..Len(Iterated) |-> k]
            /\ (pc = "done" => Len(Iterated) = m * n)

C1_Witness ==
    /\ TwoGenerators /\ pc = "done"
    /\ Len(OuterList) = 2 /\ Len(InnerList) = 2
    /\ Len(Iterated) = 4
    /\ vars_list[1] # vars_list[2] /\ vars_list[2] # vars_list[3]

\* C2: in the merged binding of one combination a name that both bindings
\* define carries the inner value, and any other name carries the value of
\* the binding that defines it.
C2_InnerWins ==
    TwoGenerators =>
        LET n == Len(InnerList)
        IN  \A i \in 0..(Len(OuterList) - 1), j \in 0..(n - 1) :
              LET o == OuterList[i + 1]
                  inner == InnerList[j + 1]
                  merged == vars_list[i * n + j + 1]
              IN  /\ Keys(merged) = Keys(o) \cup Keys(inner)
                  /\ \A k \in Keys(inner) : Get(merged, k) = Get(inner, k)
                  /\ \A k \in Keys(o) \ Keys(inner) : Get(merged, k) = Get(o, k)

C2_Witness ==
    /\ TwoGenerators
    /\ \E i \in 1..Len(OuterList), j \in 1..Len(InnerList) :
         \E k \in Keys(OuterList[i]) \cap Keys(InnerList[j]) :
            /\ Get(OuterList[i], k) # Get(InnerList[j], k)
            /\ Get(vars_list[(i - 1) * Len(InnerList) + j], k) = Get(InnerList[j], k)
            /\ Keys(InnerList[j]) \ Keys(OuterList[i]) # {}

\* C3: generate() calls the check hook first; when the check returns an
\* error description generate() raises it and _do_generate is not called,
\* when it returns None generate() returns what _do_generate returns.
C3_GenerateChecksFirst ==
    gen_calls > 0 =>
        LET g == gen_last.obj
            o == gen_last.out
        IN  /\ Len(o.called) >= 1 /\ o.called[1] = "_check"
            /\ Check(g) # None => (o.raised = Check(g) /\ o.called = <<"_check">>)
            /\ Check(g) = None =>
                 (o.raised = None /\ o.result = DoGenerate(g) /\ o.called = <<"_check", "_do_generate">>)
            /\ (g.kind = "text-file" /\ g.var_name = None) => o.raised = Msg("No variable name provided!")

C3_Witness ==
    /\ gen_calls = 2
    /\ gen_last.obj.kind = "text-file" /\ gen_last.obj.var_name = None
    /\ gen_last.obj.fstate = "file" /\ gen_last.obj.lines = <<X>>
    /\ gen_last.out.raised = Msg("No variable name provided!")
    /\ gen_last.out.called = <<"_check">>

\* while variable k of the binding is applied to token t, the token holds
\* its placeholder, so the value of the variable is substituted
Substituted(t, k) == Contains(ExpandArg(tmpl[t], SubSeq(vars_, 1, k - 1)), Placeholder(vars_[k].var))

\* the value substituted for variable k holds the placeholder of variable j
CarriesOther(t, k, j) == Substituted(t, k) /\ Contains(vars_[k].val, Placeholder(vars_[j].var))

\* C4 as claimed: a placeholder {other} inside a substituted value is in the
\* expanded token, whatever the insertion order of the two keys.
C4_NoReExpansion ==
    expanded =>
        \A t \in 1..Len(tmpl) : \A k, j \in 1..Len(vars_) :
            (k # j /\ CarriesOther(t, k, j)) => Contains(result[t], Placeholder(vars_[j].var))

\* C4 as amended: a placeholder {other} inside a substituted value is in the
\* expanded token when other was inserted into the binding before the
\* variable whose value carries it.
C4_NoReExpansionOfEarlier ==
    expanded =>
        \A t \in 1..Len(tmpl) : \A k, j \in 1..Len(vars_) :
            (j < k /\ CarriesOther(t, k, j)) => Contains(result[t], Placeholder(vars_[j].var))

C4_Witness ==
    /\ expanded
    /\ \E t \in 1..Len(tmpl) : \E k, j \in 1..Len(vars_) :
         /\ j < k /\ CarriesOther(t, k, j)
         /\ vars_[j].val = X
         /\ Contains(tmpl[t], Placeholder(vars_[j].var))
         /\ Contains(result[t], Placeholder(vars_[j].var))
         /\ Contains(result[t], X)

\* C5: the expansion has the length and order of the template, the template
\* is not modified, a token without a placeholder of a bound name comes back
\* unchanged, and a placeholder of an unbound name stays in the output.
C5_ExpansionFrameState ==
    expanded =>
        /\ Len(result) = Len(tmpl)
        /\ \A t \in 1..Len(tmpl) :
             /\ (\A k \in Keys(vars_) : ~Contains(tmpl[t], Placeholder(k))) => result[t] = tmpl[t]
             /\ \A n \in Names \ Keys(vars_) :
                  Contains(tmpl[t], Placeholder(n)) => Contains(result[t], Placeholder(n))

C5_ExpansionFrame == [](C5_ExpansionFrameState) /\ [][tmpl' = tmpl /\ vars_' = vars_]_vars

C5_Witness ==
    /\ expanded
    /\ Len(tmpl) = 2
    /\ Keys(vars_) = {A}
    /\ Contains(tmpl[1], Placeholder(A)) /\ Contains(tmpl[1], Placeholder(B))
    /\ result[1] # tmpl[1] /\ Contains(result[1], Placeholder(B))
    /\ tmpl[2] = Placeholder(B) /\ result[2] = tmpl[2]

\* the expansion of the loaded template for binding k of vars_list
Expansion(k) == ExpandVars(pipeline, vars_list[k])

\* the dry-run line of binding k: the shell-quoted expansion, the
\* configured prefix put in front of its first token when one is set
DryRunLine(k) ==
    IF parsed.exec_prefix = None
    THEN ShlexJoin(Expansion(k))
    ELSE ShlexJoin([Expansion(k) EXCEPT ![1] = DryRunPrefix(parsed.exec_prefix) \o Expansion(k)[1]])

\* C6 as claimed: a finished dry run has printed one line per binding, in
\* binding order, with a prefix configured and with prefix None alike.
C6_DryRunLines ==
    (pc = "done" /\ parsed.exec_dry_run) =>
        /\ Len(stdout) = Len(vars_list)
        /\ \A k \in 1..Len(vars_list) : stdout[k] = DryRunLine(k)

\* C7: without dry run convert_func is called once per binding, in the order
\* of vars_list, with the template expanded by that binding; in a dry run it
\* is never called.
C7_ConvertPerBinding ==
    /\ parsed.exec_dry_run => calls = <<>>
    /\ (Compiled /\ ~parsed.exec_dry_run) =>
         /\ Len(calls) = IF pc = "raised" THEN idx + 1 ELSE idx
         /\ \A k \in 1..Len(calls) : calls[k] = Expansion(k)
         /\ [k \in 1..Len(SelectSeq(trace, IsConvertEv)) |-> SelectSeq(trace, IsConvertEv)[k].i]
              = [k \in 1..Len(calls) |-> k]
    /\ (pc = "done" /\ ~parsed.exec_dry_run) => Len(calls) = Len(vars_list)

C7_Witness ==
    /\ pc = "done" /\ ~parsed.exec_dry_run
    /\ Len(vars_list) = 4 /\ Len(calls) = 4
    /\ calls[1] # calls[2] /\ calls[1] # pipeline
    /\ pipeline # parsed.pipeline

\* C8: in a run that completes, a supplied pre-hook is called once, before
\* the first binding is expanded, a supplied post-hook once, after the last
\* binding was executed, both with the parsed namespace, and no hook is
\* called between the iterations.
C8_HooksAroundLoop ==
    pc = "done" =>
        LET hooks == SelectSeq(trace, IsHookEv)
            pre == IF pre_exec # None THEN <<Event("pre_exec", 0)>> ELSE <<>>
            post == IF post_exec # None THEN <<Event("post_exec", 0)>> ELSE <<>>
        IN  /\ hooks = pre \o post
            /\ pre_exec # None => trace[1] = Event("pre_exec", 0)
            /\ post_exec # None => trace[Len(trace)] = Event("post_exec", 0)
            /\ Len(hook_args) = Len(hooks)
            /\ \A k \in 1..Len(hook_args) : hook_args[k] = parsed

C8_Witness ==
    /\ pc = "done" /\ pre_exec # None /\ post_exec # None
    /\ ~parsed.exec_dry_run /\ Len(calls) >= 2
    /\ Len(trace) = 2 * Len(calls) + 2
    /\ hook_args = <<parsed, parsed>>

\* C9: when convert_func raises on binding i the run is over: the call on
\* binding i is the last one, it was made once, and the post-hook is not
\* called.
C9_ConvertFailureAborts ==
    error.kind = "convert_func" =>
        /\ pc = "raised"
        /\ idx = error.at - 1
        /\ Len(calls) = error.at
        /\ \A k \in 1..Len(calls) : calls[k] = Expansion(k)
        /\ \A k \in 1..Len(trace) : trace[k].ev # "post_exec"
        /\ Len(hook_args) = IF pre_exec # None THEN 1 ELSE 0

C9_Witness ==
    /\ error.kind = "convert_func" /\ error.at = 2
    /\ Len(vars_list) = 4 /\ Len(calls) = 2
    /\ post_exec # None /\ pre_exec # None

SetupFails ==
    \/ parsed.exec_format \notin PIPELINE_FORMATS
    \/ \E k \in 1..Len(parsed.exec_generator) : Check(parsed.exec_generator[k]) # None

\* C10: with an unknown pipeline format, or a generator whose check fails,
\* execute_pipeline raises before convert_func is called and before a
\* dry-run line is printed, also when earlier generators are valid.
C10_SetupErrorsFirst ==
    SetupFails =>
        /\ pc \in {"start", "load", "compile", "raised"}
        /\ pc = "raised" => error.kind \in {"load_pipeline", "generate"}
        /\ calls = <<>> /\ stdout = <<>>
        /\ \A k \in 1..Len(trace) : trace[k].ev = "pre_exec"

C10_Witness ==
    /\ pc = "raised" /\ error.kind = "generate"
    /\ Len(parsed.exec_generator) = 2
    /\ Check(parsed.exec_generator[1]) = None
    /\ Len(DoGenerate(parsed.exec_generator[1])) = 2
    /\ Check(parsed.exec_generator[2]) # None
    /\ pipeline # <<>>
    /\ calls = <<>> /\ stdout = <<>>

\* ===================================================================
\* Gated filters: Trigger (filter/_trigger.py) and SubProcess
\* (filter/_sub_process.py)
\* ===================================================================

\* ------------------------------------------------------ compare_values
\* kasperl.api.compare_values: when both operands parse as floating-point
\* numbers they are compared as numbers, otherwise as strings; "contains" is
\* a substring test.  The model's strings hold digits and letters only, so
\* a string parses as a number exactly when it is a non-empty digit string.
\* The regular-expression operator "matches" is not modelled.
COMPARISON_LESSTHAN == "<"
COMPARISON_LESSOREQUAL == "<="
COMPARISON_EQUAL == "=="
COMPARISON_NOTEQUAL == "!="
COMPARISON_GREATEROREQUAL == ">="
COMPARISON_GREATERTHAN == ">"
COMPARISON_CONTAINS == "contains"

Alphabet == <<"0", "1", "2", "a", "b">>

Ord(c) == CHOOSE i \in 1..Len(Alphabet) : Alphabet[i] = c

IsFloat(s) == Len(s) > 0 /\ \A i \in 1..Len(s) : Ord(s[i]) <= 3

RECURSIVE ParseFloat(_)
ParseFloat(s) ==
    IF Len(s) = 0 THEN 0
    ELSE 10 * ParseFloat(SubSeq(s, 1, Len(s) - 1)) + (Ord(s[Len(s)]) - 1)

RECURSIVE StrLess(_, _)
StrLess(s, t) ==
    IF Len(t) = 0 THEN FALSE
    ELSE IF Len(s) = 0 THEN TRUE
    ELSE IF s[1] # t[1] THEN Ord(s[1]) < Ord(t[1])
    ELSE StrLess(Tail(s), Tail(t))

CompareValues(v1, comparison, v2) ==
    LET num == IsFloat(v1) /\ IsFloat(v2)
        lt == IF num THEN ParseFloat(v1) < ParseFloat(v2) ELSE StrLess(v1, v2)
        eq == IF num THEN ParseFloat(v1) = ParseFloat(v2) ELSE v1 = v2
    IN  CASE comparison = COMPARISON_LESSTHAN -> lt
          [] comparison = COMPARISON_LESSOREQUAL -> lt \/ eq
          [] comparison = COMPARISON_EQUAL -> eq
          [] comparison = COMPARISON_NOTEQUAL -> ~eq
          [] comparison = COMPARISON_GREATEROREQUAL -> ~lt
          [] comparison = COMPARISON_GREATERTHAN -> ~lt /\ ~eq
          [] comparison = COMPARISON_CONTAINS -> Contains(v1, v2)

\* ------------------------------------------- make_list / flatten_list
\* A Python value handed to or returned by a filter is either one item or a
\* list of items: is_list tells which, items holds the item(s).
PyItem(item) == [is_list |-> FALSE, items |-> <<item>>]

PyList(items) == [is_list |-> TRUE, items |-> items]

MakeList(data) == IF data.is_list THEN data.items ELSE <<data.items[1]>>

FlattenList(data) == IF Len(data) = 1 THEN PyItem(data[1]) ELSE PyList(data)

\* ---------------------------------------------------------------- items
\* handler: the item is a MetaDataHandler; has_metadata: it has a meta-data
\* dictionary; meta: that dictionary; seen: the sub-flow filters that have
\* processed the item, in order.
FIELD == <<"a">>
OTHER_FIELD == <<"b">>

MetaValues == { <<"0", "1">>, <<"a">> }

GateValues == { <<"1">> }

Item(id, handler, has_metadata, meta) ==
    [id |-> id, handler |-> handler, has_metadata |-> has_metadata, meta |-> meta, seen |-> <<>>]

\* the items that may stand at a position of a batch: every kind of item at
\* the first position, behind it one item without meta-data, one without the
\* field and one with it
ItemsAt(id) ==
    IF id = 1
    THEN { Item(id, FALSE, FALSE, <<>>), Item(id, TRUE, FALSE, <<>>),
           Item(id, TRUE, TRUE, <<[var |-> OTHER_FIELD, val |-> <<"1">>]>>) }
         \cup { Item(id, TRUE, TRUE, <<[var |-> FIELD, val |-> v]>>) : v \in MetaValues }
    ELSE { Item(id, TRUE, FALSE, <<>>),
           Item(id, TRUE, TRUE, <<[var |-> OTHER_FIELD, val |-> <<"1">>]>>),
           Item(id, TRUE, TRUE, <<[var |-> FIELD, val |-> <<"a">>]>>) }

RECURSIVE BatchesOf(_)
BatchesOf(n) ==
    IF n = 0 THEN { <<>> }
    ELSE { Append(b, i) : b \in BatchesOf(n - 1), i \in ItemsAt(n) }

Datas ==
    { PyItem(i) : i \in ItemsAt(1) }
    \cup { PyList(b) : b \in UNION { BatchesOf(n) : n \in 0..MaxBatch } }

\* the meta-data the gate looks at: None unless a field is configured and
\* the item is a handler that has meta-data
ExposesMeta(self, item) == self.field # None /\ item.handler /\ item.has_metadata

KeyError == Msg("KeyError")

\* -------------------------------------------------------------- Trigger
\* A sub-flow is the list of plugins _parse_commandline produced; a plugin
\* is known by its position in the list and by what it is an instance of.
READER == "reader"
FILTER == "filter"
WRITER == "writer"

PluginKinds == { READER, FILTER, WRITER }

RECURSIVE PluginLists(_)
PluginLists(n) ==
    IF n = 0 THEN { <<>> }
    ELSE { <<>> } \cup { Append(l, k) : l \in PluginLists(n - 1), k \in PluginKinds }

SubFlows == { None } \cup PluginLists(MaxSubFlow)

Comparisons ==
    { COMPARISON_LESSTHAN, COMPARISON_LESSOREQUAL, COMPARISON_EQUAL, COMPARISON_NOTEQUAL,
      COMPARISON_GREATEROREQUAL, COMPARISON_GREATERTHAN, COMPARISON_CONTAINS }

\* the gate options of a filter: no field; a field without a value; a field,
\* an operator and a value
Gates ==
    { [field |-> None, comparison |-> COMPARISON_EQUAL, value |-> None],
      [field |-> FIELD, comparison |-> COMPARISON_EQUAL, value |-> None] }
    \cup { [field |-> FIELD, comparison |-> c, value |-> v] : c \in Comparisons, v \in GateValues }

MORE_THAN_ONE_READER == Msg("More than one reader defined in sub-flow!")
NO_READER == Msg("No reader defined in sub-flow!")
NO_VALUE == Msg("No value provided to compare with!")

\* Trigger.__init__
TrgInit ==
    /\ \E sf \in SubFlows, g \in Gates :
         trigger = [sub_flow |-> sf, field |-> g.field, comparison |-> g.comparison, value |-> g.value,
                    _reader |-> 0, _filter |-> <<>>, _writer |-> 0]
    /\ trg_state = "constructed" /\ trg_error = None /\ trg_inits = <<>> /\ trg_open = {}
    /\ trg_execs = <<>>
    /\ trg_calls = 0 /\ trg_last = NoTrgCall

\* faulty variant: a second reader is skipped instead of raising
RECURSIVE TriggerScanKeepFirst(_, _, _)
TriggerScanKeepFirst(sub_flow, k, a) ==
    IF k > Len(sub_flow) THEN a
    ELSE IF sub_flow[k] = READER
         THEN TriggerScanKeepFirst(sub_flow, k + 1, IF a.reader = 0 THEN [a EXCEPT !.reader = k] ELSE a)
    ELSE IF sub_flow[k] = FILTER
         THEN TriggerScanKeepFirst(sub_flow, k + 1, [a EXCEPT !.filters = Append(@, k)])
    ELSE [a EXCEPT !.writer = k]

\* faulty variant: the scan goes on behind the writer and a second writer raises
RECURSIVE TriggerScanSecondWriterRaises(_, _, _)
TriggerScanSecondWriterRaises(sub_flow, k, a) ==
    IF k > Len(sub_flow) THEN a
    ELSE IF sub_flow[k] = READER
         THEN IF a.reader = 0
              THEN TriggerScanSecondWriterRaises(sub_flow, k + 1, [a EXCEPT !.reader = k])
              ELSE [a EXCEPT !.raised = MORE_THAN_ONE_READER]
    ELSE IF sub_flow[k] = FILTER
         THEN TriggerScanSecondWriterRaises(sub_flow, k + 1,
                  IF a.writer = 0 THEN [a EXCEPT !.filters = Append(@, k)] ELSE a)
    ELSE IF a.writer = 0
         THEN TriggerScanSecondWriterRaises(sub_flow, k + 1, [a EXCEPT !.writer = k])
         ELSE [a EXCEPT !.raised = Msg("More than one writer defined in sub-flow!")]

\* faulty variant: the scan does not stop at the writer
RECURSIVE TriggerScanPastWriter(_, _, _)
TriggerScanPastWriter(sub_flow, k, a) ==
    IF k > Len(sub_flow) THEN a
    ELSE IF sub_flow[k] = READER
         THEN IF a.reader = 0
              THEN TriggerScanPastWriter(sub_flow, k + 1, [a EXCEPT !.reader = k])
              ELSE [a EXCEPT !.raised = MORE_THAN_ONE_READER]
    ELSE IF sub_flow[k] = FILTER
         THEN TriggerScanPastWriter(sub_flow, k + 1, [a EXCEPT !.filters = Append(@, k)])
    ELSE TriggerScanPastWriter(sub_flow, k + 1, [a EXCEPT !.writer = k])

\* the loop over the sub-flow in initialize, from plugin k on: a.reader and
\* a.writer are positions (0: None), a.filters the positions collected
RECURSIVE TriggerScan(_, _, _)
TriggerScan(sub_flow, k, a) ==
    IF k > Len(sub_flow) THEN a
    ELSE IF sub_flow[k] = READER
         THEN IF a.reader = 0
              THEN TriggerScan(sub_flow, k + 1, [a EXCEPT !.reader = k])
              ELSE [a EXCEPT !.raised = MORE_THAN_ONE_READER]
    ELSE IF sub_flow[k] = FILTER
         THEN TriggerScan(sub_flow, k + 1, [a EXCEPT !.filters = Append(@, k)])
    ELSE [a EXCEPT !.writer = k]

\* faulty variant: the missing reader goes unnoticed
ReaderMissingNever(a) == FALSE

\* the plugins of the sub-flow that hold a role
Members(self) ==
    ({ self._reader, self._writer } \ { 0 }) \cup { self._filter[i] : i \in 1..Len(self._filter) }

\* the test "self._reader is None" after the assembly
ReaderMissing(a) == a.reader = 0

\* Trigger.initialize
TriggerInitialize ==
    /\ trg_state = "constructed"
    /\ LET sub_flow == IF trigger.sub_flow = None THEN <<>> ELSE trigger.sub_flow
           a == IF Len(sub_flow) > 0
                THEN TriggerScan(sub_flow, 1, [reader |-> 0, filters |-> <<>>, writer |-> 0, raised |-> None])
                ELSE [reader |-> trigger._reader, filters |-> trigger._filter,
                      writer |-> trigger._writer, raised |-> None]
           assembled == [trigger EXCEPT !.sub_flow = sub_flow, !._reader = a.reader,
                                        !._filter = a.filters, !._writer = a.writer]
       IN  IF a.raised # None
           THEN /\ trigger' = [assembled EXCEPT !._filter = <<>>]
                /\ trg_state' = "failed" /\ trg_error' = a.raised
                /\ trg_inits' = trg_inits /\ trg_open' = trg_open
           ELSE IF ReaderMissing(a)
           THEN /\ trigger' = assembled
                /\ trg_state' = "failed" /\ trg_error' = NO_READER
                /\ trg_inits' = trg_inits /\ trg_open' = trg_open
           ELSE /\ trigger' = assembled
                /\ trg_inits' = trg_inits \o <<a.reader>> \o a.filters
                                  \o (IF a.writer # 0 THEN <<a.writer>> ELSE <<>>)
                /\ trg_open' = trg_open \cup Members(assembled)
                /\ IF trigger.field # None /\ trigger.value = None
                   THEN trg_state' = "failed" /\ trg_error' = NO_VALUE
                   ELSE trg_state' = "initialized" /\ trg_error' = None
    /\ UNCHANGED <<trg_execs, trg_calls, trg_last>>
    /\ UNCHANGED <<drvVars, expVars, genVars, subVars, stoVars, blkVars, emlVars, wdVars, cronVars, outVars>>

\* faulty variant: the gate looks at the first item of any batch
TriggerDoProcessGateAnyBatch(self, data) ==
    LET batch == MakeList(data)
        gated == Len(batch) >= 1 /\ ExposesMeta(self, batch[1])
    IN  IF gated /\ self.field \notin Keys(batch[1].meta)
        THEN [data |-> data, raised |-> KeyError, out |-> NoData, compared |-> FALSE, executed |-> FALSE]
        ELSE IF gated /\ ~CompareValues(Get(batch[1].meta, self.field), self.comparison, self.value)
        THEN [data |-> data, raised |-> None, out |-> PyList(batch), compared |-> TRUE, executed |-> FALSE]
        ELSE [data |-> data, raised |-> None, out |-> FlattenList(batch), compared |-> gated,
              executed |-> TRUE]

\* Trigger._do_process: the outcome of one call
TriggerDoProcess(self, data) ==
    LET batch == MakeList(data)
        gated == Len(batch) = 1 /\ ExposesMeta(self, batch[1])
    IN  IF gated /\ self.field \notin Keys(batch[1].meta)
        THEN [data |-> data, raised |-> KeyError, out |-> NoData, compared |-> FALSE, executed |-> FALSE]
        ELSE IF gated /\ ~CompareValues(Get(batch[1].meta, self.field), self.comparison, self.value)
        THEN [data |-> data, raised |-> None, out |-> PyList(batch), compared |-> TRUE, executed |-> FALSE]
        ELSE [data |-> data, raised |-> None, out |-> FlattenList(batch), compared |-> gated,
              executed |-> TRUE]

\* faulty variant: the inner pipeline is run twice
ExecuteTwice(execs, self) ==
    execs \o << [reader |-> self._reader, filter |-> self._filter, writer |-> self._writer],
                [reader |-> self._reader, filter |-> self._filter, writer |-> self._writer] >>

\* the call execute(self._reader, self._filter, self._writer, self.session)
Execute(execs, self) ==
    Append(execs, [reader |-> self._reader, filter |-> self._filter, writer |-> self._writer])

\* execute initializes the three plugins, runs them and finalizes them
Executed(open, self) == open \ Members(self)

\* one process call on the initialized filter
TriggerProcess ==
    /\ trg_state = "initialized"
    /\ trg_calls < MaxProcess
    /\ \E data \in Datas :
         LET call == TriggerDoProcess(trigger, data)
         IN  /\ trg_last' = call
             /\ trg_execs' = IF call.executed THEN Execute(trg_execs, trigger) ELSE trg_execs
             /\ trg_open' = IF call.executed THEN Executed(trg_open, trigger) ELSE trg_open
    /\ trg_calls' = trg_calls + 1
    /\ UNCHANGED <<trigger, trg_state, trg_error, trg_inits>>
    /\ UNCHANGED <<drvVars, expVars, genVars, subVars, stoVars, blkVars, emlVars, wdVars, cronVars, outVars>>

\* finalize of the Trigger: the class defines none, the inherited one
\* knows nothing of the plugins of the sub-flow
TriggerFinalize ==
    /\ trg_state \in { "initialized", "failed" }
    /\ trg_state' = "finalized"
    /\ UNCHANGED <<trigger, trg_error, trg_inits, trg_open, trg_execs, trg_calls, trg_last>>
    /\ UNCHANGED <<drvVars, expVars, genVars, subVars, stoVars, blkVars, emlVars, wdVars, cronVars, outVars>>

InitTrigger == TrgInit /\ DrvIdle /\ ExpIdle /\ GenIdle /\ SubIdle /\ StoIdle /\ BlkIdle /\ EmlIdle /\ WdIdle /\ CronIdle /\ OutIdle

NextTrigger == TriggerInitialize \/ TriggerProcess \/ TriggerFinalize

SpecTrigger == InitTrigger /\ [][NextTrigger]_vars

\* ----------------------------------------------------------- SubProcess
\* The sub_flow option is modelled by the plugins _parse_sub_flow makes of
\* it; PLUGIN is a plugin that is not a BatchFilter.
PLUGIN == "plugin"

SubPluginKinds == { FILTER, PLUGIN }

RECURSIVE SubPluginLists(_)
SubPluginLists(n) ==
    IF n = 0 THEN { <<>> }
    ELSE { <<>> } \cup { Append(l, k) : l \in SubPluginLists(n - 1), k \in SubPluginKinds }

SubSubFlows == { None } \cup SubPluginLists(MaxSubFlow)

\* SubProcess.__init__
SubInit ==
    /\ \E sf \in SubSubFlows, g \in Gates :
         subproc = [sub_flow |-> sf, field |-> g.field, comparison |-> g.comparison, value |-> g.value,
                    _sub_flow |-> None, _filter |-> <<>>]
    /\ sub_state = "constructed" /\ sub_error = None /\ sub_inits = <<>> /\ sub_finals = <<>>
    /\ sub_calls = 0 /\ sub_last = NoSubCall

\* the BatchFilter plugins of a sub-flow, from plugin k on
RECURSIVE BatchFilters(_, _)
BatchFilters(sub_flow, k) ==
    IF k > Len(sub_flow) THEN <<>>
    ELSE IF sub_flow[k] = FILTER THEN <<k>> \o BatchFilters(sub_flow, k + 1)
    ELSE BatchFilters(sub_flow, k + 1)

\* SubProcess.initialize
SubInitialize ==
    /\ sub_state = "constructed"
    /\ LET parsed_ == IF subproc.sub_flow = None THEN <<>> ELSE subproc.sub_flow
           filter_ == IF Len(parsed_) > 0 THEN BatchFilters(parsed_, 1) ELSE subproc._filter
       IN  /\ subproc' = [subproc EXCEPT !._sub_flow = parsed_, !._filter = filter_]
           /\ sub_inits' = IF filter_ # <<>> THEN Append(sub_inits, filter_) ELSE sub_inits
    /\ IF subproc.field # None /\ subproc.value = None
       THEN sub_state' = "failed" /\ sub_error' = NO_VALUE
       ELSE sub_state' = "initialized" /\ sub_error' = None
    /\ UNCHANGED <<sub_finals, sub_calls, sub_last>>
    /\ UNCHANGED <<drvVars, expVars, genVars, trgVars, stoVars, blkVars, emlVars, wdVars, cronVars, outVars>>

\* self._filter.process(item): every filter of the chain sees the item
Apply(filter_, item) == [item EXCEPT !.seen = @ \o filter_]

\* faulty variant: with a field configured, an item without meta-data is not processed
RECURSIVE SubLoopSkipsWithoutMeta(_, _, _, _)
SubLoopSkipsWithoutMeta(self, batch, k, c) ==
    IF k > Len(batch) THEN [c EXCEPT !.out = FlattenList(c.out.items)]
    ELSE LET item == batch[k]
             gated == ExposesMeta(self, item)
         IN  IF gated /\ self.field \notin Keys(item.meta)
             THEN [c EXCEPT !.raised = KeyError, !.out = NoData]
             ELSE LET process == IF gated
                                 THEN CompareValues(Get(item.meta, self.field), self.comparison, self.value)
                                 ELSE self.field = None
                      applies == process /\ self._filter # <<>>
                  IN  SubLoopSkipsWithoutMeta(self, batch, k + 1,
                              [c EXCEPT !.out.items = Append(@, IF applies THEN Apply(self._filter, item) ELSE item),
                                        !.compared = IF gated THEN Append(@, k) ELSE @,
                                        !.applied = IF applies THEN Append(@, k) ELSE @])

\* the loop of SubProcess._do_process from item k on; c is the call so far
RECURSIVE SubLoop(_, _, _, _)
SubLoop(self, batch, k, c) ==
    IF k > Len(batch) THEN [c EXCEPT !.out = FlattenList(c.out.items)]
    ELSE LET item == batch[k]
             gated == ExposesMeta(self, item)
         IN  IF gated /\ self.field \notin Keys(item.meta)
             THEN [c EXCEPT !.raised = KeyError, !.out = NoData]
             ELSE LET process == IF gated
                                 THEN CompareValues(Get(item.meta, self.field), self.comparison, self.value)
                                 ELSE TRUE
                      applies == process /\ self._filter # <<>>
                  IN  SubLoop(self, batch, k + 1,
                              [c EXCEPT !.out.items = Append(@, IF applies THEN Apply(self._filter, item) ELSE item),
                                        !.compared = IF gated THEN Append(@, k) ELSE @,
                                        !.applied = IF applies THEN Append(@, k) ELSE @])

\* SubProcess._do_process: the outcome of one call
SubDoProcess(self, data) ==
    SubLoop(self, MakeList(data), 1,
            [data |-> data, raised |-> None, out |-> PyList(<<>>), compared |-> <<>>, applied |-> <<>>])

\* one process call on the initialized filter
SubProcessCall ==
    /\ sub_state = "initialized"
    /\ sub_calls < MaxProcess
    /\ \E data \in Datas : sub_last' = SubDoProcess(subproc, data)
    /\ sub_calls' = sub_calls + 1
    /\ UNCHANGED <<subproc, sub_state, sub_error, sub_inits, sub_finals>>
    /\ UNCHANGED <<drvVars, expVars, genVars, trgVars, stoVars, blkVars, emlVars, wdVars, cronVars, outVars>>

\* faulty variant: the filter chain is not finalized
SubFinalizeOwnerOnly ==
    /\ sub_state = "initialized"
    /\ sub_state' = "finalized"
    /\ UNCHANGED <<subproc, sub_error, sub_inits, sub_finals, sub_calls, sub_last>>
    /\ UNCHANGED <<drvVars, expVars, genVars, trgVars, stoVars, blkVars, emlVars, wdVars, cronVars, outVars>>

\* SubProcess.finalize
SubFinalize ==
    /\ sub_state = "initialized"
    /\ sub_state' = "finalized"
    /\ sub_finals' = IF subproc._filter # <<>> THEN Append(sub_finals, subproc._filter) ELSE sub_finals
    /\ UNCHANGED <<subproc, sub_error, sub_inits, sub_calls, sub_last>>
    /\ UNCHANGED <<drvVars, expVars, genVars, trgVars, stoVars, blkVars, emlVars, wdVars, cronVars, outVars>>

InitSubProcess == SubInit /\ DrvIdle /\ ExpIdle /\ GenIdle /\ TrgIdle /\ StoIdle /\ BlkIdle /\ EmlIdle /\ WdIdle /\ CronIdle /\ OutIdle

NextSubProcess == SubInitialize \/ SubProcessCall \/ SubFinalize

SpecSubProcess == InitSubProcess /\ [][NextSubProcess]_vars

\* ===================================================================
\* Properties of the Trigger
\* ===================================================================
Positions(sub_flow, kind) == { i \in 1..Len(sub_flow) : sub_flow[i] = kind }

\* position of the first writer of a sub-flow, Len + 1 when it has none
FirstWriter(sub_flow) ==
    IF Positions(sub_flow, WRITER) = {} THEN Len(sub_flow) + 1
    ELSE CHOOSE i \in Positions(sub_flow, WRITER) : \A j \in Positions(sub_flow, WRITER) : i <= j

\* the plugins of one kind that stand before the first writer
Before(sub_flow, kind) == { i \in Positions(sub_flow, kind) : i < FirstWriter(sub_flow) }

TrgInitializeDone == trg_state \in { "initialized", "failed" }

\* C11 (as stated): once initialize has run on a sub-flow that holds two
\* readers, wherever they stand, it has raised "More than one reader".
C11_TwoReadersRaise ==
    (TrgInitializeDone /\ Cardinality(Positions(trigger.sub_flow, READER)) >= 2)
        => trg_error = MORE_THAN_ONE_READER

\* C11 (amended): initialize raises "More than one reader" exactly for the
\* sub-flows in which two readers stand before the first writer; a reader
\* behind the first writer is not looked at and raises nothing.
C11_TwoReadersBeforeWriterRaise ==
    TrgInitializeDone =>
        (trg_error = MORE_THAN_ONE_READER <=> Cardinality(Before(trigger.sub_flow, READER)) >= 2)

C11_Witness ==
    /\ trg_state = "failed" /\ trg_error = MORE_THAN_ONE_READER
    /\ \E i, j, k \in 1..Len(trigger.sub_flow) :
         /\ i < j /\ j < k
         /\ trigger.sub_flow[i] = READER /\ trigger.sub_flow[j] = FILTER /\ trigger.sub_flow[k] = READER

\* what initialize raises on a sub-flow, read off the plugins that stand
\* before its first writer and the gate options
ErrorOf(sub_flow, field, value) ==
    IF Cardinality(Before(sub_flow, READER)) >= 2 THEN MORE_THAN_ONE_READER
    ELSE IF Before(sub_flow, READER) = {} THEN NO_READER
    ELSE IF field # None /\ value = None THEN NO_VALUE
    ELSE None

TwoWriters == Cardinality(Positions(trigger.sub_flow, WRITER)) >= 2

\* C12 (as stated): once initialize has run on a sub-flow that holds a
\* second writer, it has raised.
C12_SecondWriterRaises == (TrgInitializeDone /\ TwoWriters) => trg_state = "failed"

\* C12 (amended): a second writer raises nothing; initialize on a sub-flow
\* with two or more writers ends as it does on the plugins up to the first
\* writer, and when it succeeds the first writer is the writer.
C12_SecondWriterIgnored ==
    (TrgInitializeDone /\ TwoWriters) =>
        /\ trg_error = ErrorOf(trigger.sub_flow, trigger.field, trigger.value)
        /\ trg_state = "initialized" <=> trg_error = None
        /\ trg_state = "initialized" => trigger._writer = FirstWriter(trigger.sub_flow)

C12_Witness == trg_state = "initialized" /\ TwoWriters

\* the sub-flow positions that hold a role, were initialized or were
\* handed to execute
RolePositions == ({ trigger._reader, trigger._writer } \ { 0 }) \cup { trigger._filter[i] : i \in 1..Len(trigger._filter) }

InitializedPositions == { trg_inits[i] : i \in 1..Len(trg_inits) }

ExecutedPositions ==
    UNION { ({ trg_execs[n].reader, trg_execs[n].writer } \ { 0 })
            \cup { trg_execs[n].filter[i] : i \in 1..Len(trg_execs[n].filter) } : n \in 1..Len(trg_execs) }

\* C13: after a successful initialize the reader, the filters and the writer
\* stand at or before the first writer of the sub-flow, the writer is that
\* first writer, and no plugin behind it is initialized or executed.
C13_WriterEndsScan ==
    trg_state = "initialized" =>
        /\ \A p \in RolePositions \cup InitializedPositions \cup ExecutedPositions :
             p <= FirstWriter(trigger.sub_flow)
        /\ Positions(trigger.sub_flow, WRITER) # {} => trigger._writer = FirstWriter(trigger.sub_flow)

C13_Witness ==
    /\ trg_state = "initialized" /\ Len(trg_execs) > 0
    /\ trigger._writer # 0
    /\ \E j \in 1..Len(trigger.sub_flow) : j > trigger._writer /\ trigger.sub_flow[j] = FILTER

\* C14: initialize raises "No reader" whenever no reader stands before the
\* first writer of the sub-flow (no sub-flow, an empty one, filters and
\* writer only, reader behind the writer), and every execution of the inner
\* pipeline is handed a reader of the sub-flow.
C14_NeverWithoutReader ==
    /\ (TrgInitializeDone /\ Before(trigger.sub_flow, READER) = {})
           => (trg_state = "failed" /\ trg_error = NO_READER)
    /\ \A n \in 1..Len(trg_execs) :
           /\ trg_execs[n].reader \in 1..Len(trigger.sub_flow)
           /\ trigger.sub_flow[trg_execs[n].reader] = READER

C14_Witness ==
    /\ trg_state = "failed" /\ trg_error = NO_READER
    /\ \E i, j \in 1..Len(trigger.sub_flow) :
         i < j /\ trigger.sub_flow[i] = WRITER /\ trigger.sub_flow[j] = READER

\* a step that is one _do_process call, and the batch it was given
TrgProcessStep == trg_calls' = trg_calls + 1

TrgBatch == MakeList(trg_last.data)

\* an item passes the gate when the gate cannot be or is not asked about it,
\* or when the comparison of its field with the value is true
ItemPasses(self, item) ==
    \/ ~ExposesMeta(self, item)
    \/ /\ self.field \in Keys(item.meta)
       /\ CompareValues(Get(item.meta, self.field), self.comparison, self.value)

\* a call passes the gate unless its batch is one item that does not
CallPasses(self, data) == Len(MakeList(data)) # 1 \/ ItemPasses(self, MakeList(data)[1])

\* C15 (as stated): every process call runs the inner pipeline once for each
\* item of its batch that passes the gate, so that executions and passing
\* items stay equal in number.
C15_OncePerItem ==
    [][TrgProcessStep =>
         Len(trg_execs') - Len(trg_execs)
             = Cardinality({ i \in 1..Len(TrgBatch') : ItemPasses(trigger, TrgBatch'[i]) })]_vars

\* C15 (amended): every process call that passes the gate runs the inner
\* pipeline exactly once, whatever the number of items in its batch, and a
\* call that does not pass runs nothing, so that executions and passing
\* calls stay equal in number.
C15_OncePerCall ==
    [][TrgProcessStep =>
         Len(trg_execs') - Len(trg_execs) = (IF CallPasses(trigger, trg_last'.data) THEN 1 ELSE 0)]_vars

C15_Witness ==
    /\ trg_calls = MaxProcess /\ Len(trg_execs) = 1
    /\ trg_last.executed /\ Len(TrgBatch) = 2 /\ trigger.field # None

\* C16: the comparison is evaluated only in calls whose batch is one item,
\* and a call whose batch holds more than one item runs the inner pipeline.
C16_GateOnlyForSingleItem ==
    trg_calls > 0 =>
        /\ trg_last.compared => Len(TrgBatch) = 1
        /\ Len(TrgBatch) > 1 => (trg_last.executed /\ trg_last.raised = None)

C16_Witness ==
    /\ trg_calls > 0 /\ Len(TrgBatch) = 2 /\ trg_last.executed
    /\ \A i \in 1..2 : ExposesMeta(trigger, TrgBatch[i]) /\ ~ItemPasses(trigger, TrgBatch[i])

\* C17: a call with one item that carries the field, on a Trigger gated with
\* "==", runs the inner pipeline exactly when the field equals the value
\* and returns the item itself either way.
C17_SameItemBack ==
    (/\ trg_calls > 0 /\ trigger.field # None /\ trigger.comparison = COMPARISON_EQUAL
     /\ Len(TrgBatch) = 1 /\ ExposesMeta(trigger, TrgBatch[1])
     /\ trigger.field \in Keys(TrgBatch[1].meta))
    => /\ trg_last.executed
            <=> CompareValues(Get(TrgBatch[1].meta, trigger.field), COMPARISON_EQUAL, trigger.value)
       /\ trg_last.raised = None
       /\ trg_last.out = PyItem(TrgBatch[1])

\* ===================================================================
\* Properties of the SubProcess
\* ===================================================================
SubBatch == MakeList(sub_last.data)

SubOut == MakeList(sub_last.out)

InSeq(x, s) == \E i \in 1..Len(s) : s[i] = x

\* the item carries the field the gate compares
HasField(self, item) == ExposesMeta(self, item) /\ self.field \in Keys(item.meta)

GateOf(self, item) == CompareValues(Get(item.meta, self.field), self.comparison, self.value)

\* C18: in the output of a process call every item whose comparison is false
\* stands unmodified at its position and has not been handed to the filter,
\* and every item whose comparison is true is replaced at its position by
\* the filter's result.
C18_GatedPerItem ==
    sub_calls > 0 =>
        \A k \in 1..Len(SubBatch) :
            HasField(subproc, SubBatch[k]) =>
                /\ Len(SubOut) = Len(SubBatch)
                /\ IF GateOf(subproc, SubBatch[k])
                   THEN SubOut[k] = Apply(subproc._filter, SubBatch[k])
                   ELSE SubOut[k] = SubBatch[k] /\ ~InSeq(k, sub_last.applied)

\* C19 (as stated): with a field configured, an item that exposes no
\* meta-data is not handed to the filter and is emitted unchanged.
C19_NoMetaUnfiltered ==
    (sub_calls > 0 /\ subproc.field # None /\ sub_last.raised = None) =>
        \A k \in 1..Len(SubBatch) :
            ~ExposesMeta(subproc, SubBatch[k]) =>
                (~InSeq(k, sub_last.applied) /\ SubOut[k] = SubBatch[k])

\* C19 (amended): with a field configured, an item that exposes no meta-data
\* is treated as in an ungated stage: the comparison is not evaluated for
\* it, and every output of a process call holds at its position the
\* filter's result for it, the filter having been applied to it.
C19_NoMetaFiltered ==
    (sub_calls > 0 /\ subproc.field # None) =>
        \A k \in 1..Len(SubBatch) :
            ~ExposesMeta(subproc, SubBatch[k]) =>
                /\ ~InSeq(k, sub_last.compared)
                /\ sub_last.raised = None =>
                       /\ SubOut[k] = Apply(subproc._filter, SubBatch[k])
                       /\ subproc._filter # <<>> => InSeq(k, sub_last.applied)

C19_Witness ==
    /\ sub_calls > 0 /\ subproc.field # None /\ subproc._filter # <<>> /\ sub_last.raised = None
    /\ Len(SubBatch) = 2
    /\ ~SubBatch[1].handler /\ SubBatch[2].handler /\ ~SubBatch[2].has_metadata
    /\ sub_last.applied = <<1, 2>>

\* C20: no process call of a gated SubProcess or Trigger raises, whether
\* its items carry meta-data, the field, or neither.
C20_MissingMetaNeverRaises ==
    /\ (sub_calls > 0 /\ subproc.field # None) => sub_last.raised = None
    /\ (trg_calls > 0 /\ trigger.field # None) => trg_last.raised = None

\* ===================================================================
\* Life cycle of the sub-flow plugins
\* ===================================================================
\* C21: once the Trigger has been finalized, no plugin of its sub-flow is
\* left initialized and not finalized, whatever was processed in between.
C21_MembersFinalized == trg_state = "finalized" => trg_open = {}

\* the filter chain of the SubProcess as a one-element log, empty without one
SubChain == IF subproc._filter # <<>> THEN <<subproc._filter>> ELSE <<>>

\* C22: from initialize to finalize of the SubProcess its filter chain is
\* initialized exactly once, whatever the gate answers; it is finalized
\* exactly once, by finalize; and every application of it happens after its
\* initialization and before its finalization.
C22_FilterLifecycleState ==
    /\ sub_state = "constructed" => (sub_inits = <<>> /\ sub_finals = <<>> /\ sub_last.applied = <<>>)
    /\ sub_state = "initialized" => (sub_inits = SubChain /\ sub_finals = <<>>)
    /\ sub_state = "finalized" => (sub_inits = SubChain /\ sub_finals = SubChain)
    /\ sub_last.applied # <<>> => sub_inits = SubChain

C22_FilterLifecycle ==
    /\ []C22_FilterLifecycleState
    /\ [][(sub_calls' # sub_calls /\ sub_last'.applied # <<>>)
              => (sub_inits = SubChain /\ sub_finals = <<>> /\ sub_inits' = sub_inits /\ sub_finals' = <<>>)]_vars

C22_Witness ==
    /\ sub_state = "finalized" /\ subproc._filter # <<>> /\ sub_calls = MaxProcess
    /\ sub_last.compared # <<>> /\ sub_last.applied = <<>> /\ sub_last.raised = None

\* ===================================================================
\* Session storage: api/_session.py, filter/_storage.py,
\* writer/_storage.py, reader/_storage.py
\* ===================================================================
StoNames == { A, B }

StoValues == { X, Y }

Absent == <<"absent">>

NoRead == [name |-> None, loop |-> FALSE, forwarded |-> <<>>, raised |-> None]

NoOrigin == [invocation |-> 0, plugin |-> None]

\* class Session: storage is assigned in the class body, one dict for the
\* class; no invocation has started
StoInit ==
    /\ sto_class = [n \in StoNames |-> Absent]
    /\ sto_invocation = 0 /\ sto_nested = FALSE
    /\ sto_origin = [n \in StoNames |-> NoOrigin]
    /\ sto_reader = NoRead

\* what self.session.storage evaluates to: no code gives a Session object a
\* storage attribute of its own, so the look-up ends at the class attribute
SessionStorage == sto_class

\* a top-level invocation starts: a new Session object is made
NewInvocation ==
    /\ sto_invocation < MaxInvocations
    /\ sto_invocation' = sto_invocation + 1
    /\ sto_nested' = FALSE
    /\ UNCHANGED <<sto_class, sto_origin, sto_reader>>
    /\ UNCHANGED <<drvVars, expVars, genVars, trgVars, subVars, blkVars, emlVars, wdVars, cronVars, outVars>>

\* a nested sub-flow starts: its plugins are given the session of the owner
EnterSubFlow ==
    /\ sto_invocation > 0 /\ ~sto_nested
    /\ sto_nested' = TRUE
    /\ UNCHANGED <<sto_class, sto_invocation, sto_origin, sto_reader>>
    /\ UNCHANGED <<drvVars, expVars, genVars, trgVars, subVars, blkVars, emlVars, wdVars, cronVars, outVars>>

\* self.session.storage[self.storage_name] = item
Store(storage, name, item) == [storage EXCEPT ![name] = item]

\* StorageUpdater._do_process (set-storage) on one item
StorageUpdaterProcess ==
    /\ sto_invocation > 0
    /\ \E name \in StoNames, item \in StoValues :
         /\ sto_class' = Store(SessionStorage, name, item)
         /\ sto_origin' = [sto_origin EXCEPT ![name] = [invocation |-> sto_invocation, plugin |-> Msg("set-storage")]]
    /\ UNCHANGED <<sto_invocation, sto_nested, sto_reader>>
    /\ UNCHANGED <<drvVars, expVars, genVars, trgVars, subVars, blkVars, emlVars, wdVars, cronVars, outVars>>

\* StorageWriter.write_stream (to-storage) on one item
StorageWriterWriteStream ==
    /\ sto_invocation > 0
    /\ \E name \in StoNames, item \in StoValues :
         /\ sto_class' = Store(SessionStorage, name, item)
         /\ sto_origin' = [sto_origin EXCEPT ![name] = [invocation |-> sto_invocation, plugin |-> Msg("to-storage")]]
    /\ UNCHANGED <<sto_invocation, sto_nested, sto_reader>>
    /\ UNCHANGED <<drvVars, expVars, genVars, trgVars, subVars, blkVars, emlVars, wdVars, cronVars, outVars>>

NOT_AVAILABLE == Msg("Not available from storage: %s")

\* StorageReader.read, the generator run to its end
StorageRead(storage, name) ==
    IF storage[name] # Absent
    THEN [forwarded |-> <<storage[name]>>, raised |-> None]
    ELSE [forwarded |-> <<>>, raised |-> NOT_AVAILABLE]

\* StorageReader.has_finished
StorageHasFinished(reads) == TRUE

\* the read loop of the framework: while not has_finished(): for item in
\* read(): forward item; reads counts the calls of read() so far
RECURSIVE ReadLoop(_, _, _, _)
ReadLoop(storage, name, reads, forwarded) ==
    IF StorageHasFinished(reads) \/ reads >= MaxProcess THEN [forwarded |-> forwarded, raised |-> None]
    ELSE LET r == StorageRead(storage, name)
         IN  IF r.raised # None THEN [forwarded |-> forwarded, raised |-> r.raised]
             ELSE ReadLoop(storage, name, reads + 1, forwarded \o r.forwarded)

\* one call of read() on a from-storage reader
StorageReaderRead ==
    /\ sto_invocation > 0
    /\ \E name \in StoNames :
         LET r == StorageRead(SessionStorage, name)
         IN  sto_reader' = [name |-> name, loop |-> FALSE, forwarded |-> r.forwarded, raised |-> r.raised]
    /\ UNCHANGED <<sto_class, sto_invocation, sto_nested, sto_origin>>
    /\ UNCHANGED <<drvVars, expVars, genVars, trgVars, subVars, blkVars, emlVars, wdVars, cronVars, outVars>>

\* a from-storage reader driven by the read loop
StorageReaderLoop ==
    /\ sto_invocation > 0
    /\ \E name \in StoNames :
         LET r == ReadLoop(SessionStorage, name, 0, <<>>)
         IN  sto_reader' = [name |-> name, loop |-> TRUE, forwarded |-> r.forwarded, raised |-> r.raised]
    /\ UNCHANGED <<sto_class, sto_invocation, sto_nested, sto_origin>>
    /\ UNCHANGED <<drvVars, expVars, genVars, trgVars, subVars, blkVars, emlVars, wdVars, cronVars, outVars>>

InitStorage == StoInit /\ DrvIdle /\ ExpIdle /\ GenIdle /\ TrgIdle /\ SubIdle /\ BlkIdle /\ EmlIdle /\ WdIdle /\ CronIdle /\ OutIdle

NextStorage ==
    \/ NewInvocation \/ EnterSubFlow \/ StorageUpdaterProcess \/ StorageWriterWriteStream
    \/ StorageReaderRead \/ StorageReaderLoop

SpecStorage == InitStorage /\ [][NextStorage]_vars

\* C23: what the session storage holds was stored during the running
\* invocation, nothing of an earlier invocation is left in it; and what was
\* stored during the running invocation is there for a nested sub-flow.
C23_StoragePerInvocation ==
    \A n \in StoNames :
        /\ SessionStorage[n] # Absent => sto_origin[n].invocation = sto_invocation
        /\ (sto_nested /\ sto_origin[n].invocation = sto_invocation /\ sto_invocation > 0) => SessionStorage[n] # Absent

\* C28: a from-storage reader driven by the read loop forwards the stored
\* object exactly once when its name is in the storage, raises when it is
\* not, and leaves the storage as it was.
C28_ForwardsOnce ==
    [][(sto_reader'.loop /\ sto_reader' # sto_reader) =>
         /\ sto_class' = sto_class
         /\ IF SessionStorage[sto_reader'.name] # Absent
            THEN sto_reader'.forwarded = <<SessionStorage[sto_reader'.name]>> /\ sto_reader'.raised = None
            ELSE sto_reader'.raised # None]_vars

\* ===================================================================
\* Block: filter/_block.py
\* ===================================================================
NoBlkCall == [data |-> NoData, raised |-> None, out |-> NoData]

BlkInit ==
    /\ block \in Gates
    /\ blk_state = "constructed" /\ blk_error = None /\ blk_calls = 0 /\ blk_last = NoBlkCall

\* Block.initialize
BlockInitialize ==
    /\ blk_state = "constructed"
    /\ IF block.field # None /\ block.value = None
       THEN blk_state' = "failed" /\ blk_error' = NO_VALUE
       ELSE blk_state' = "initialized" /\ blk_error' = None
    /\ UNCHANGED <<block, blk_calls, blk_last>>
    /\ UNCHANGED <<drvVars, expVars, genVars, trgVars, subVars, stoVars, emlVars, wdVars, cronVars, outVars>>

\* the loop of Block._do_process from item k on; c is the call so far
RECURSIVE BlockLoop(_, _, _, _)
BlockLoop(self, batch, k, c) ==
    IF k > Len(batch) THEN [c EXCEPT !.out = FlattenList(c.out.items)]
    ELSE LET item == batch[k]
         IN  IF ~ExposesMeta(self, item)
             THEN BlockLoop(self, batch, k + 1, [c EXCEPT !.out.items = Append(@, item)])
             ELSE IF self.field \notin Keys(item.meta)
             THEN [c EXCEPT !.raised = KeyError, !.out = NoData]
             ELSE LET comp_result == CompareValues(Get(item.meta, self.field), self.comparison, self.value)
                  IN  IF ~comp_result
                      THEN BlockLoop(self, batch, k + 1, c)
                      ELSE BlockLoop(self, batch, k + 1, [c EXCEPT !.out.items = Append(@, item)])

\* Block._do_process: the outcome of one call
BlockDoProcess(self, data) ==
    BlockLoop(self, MakeList(data), 1, [data |-> data, raised |-> None, out |-> PyList(<<>>)])

\* one process call on the initialized filter
BlockProcess ==
    /\ blk_state = "initialized"
    /\ blk_calls < MaxProcess
    /\ \E data \in Datas : blk_last' = BlockDoProcess(block, data)
    /\ blk_calls' = blk_calls + 1
    /\ UNCHANGED <<block, blk_state, blk_error>>
    /\ UNCHANGED <<drvVars, expVars, genVars, trgVars, subVars, stoVars, emlVars, wdVars, cronVars, outVars>>

InitBlock == BlkInit /\ DrvIdle /\ ExpIdle /\ GenIdle /\ TrgIdle /\ SubIdle /\ StoIdle /\ EmlIdle /\ WdIdle /\ CronIdle /\ OutIdle

NextBlock == BlockInitialize \/ BlockProcess

SpecBlock == InitBlock /\ [][NextBlock]_vars

BlkBatch == MakeList(blk_last.data)

BlkOut == MakeList(blk_last.out)

\* C24: in every process call of the block filter that returns, an item
\* whose meta-data holds the configured field is dropped exactly when
\* METADATA_VALUE COMPARISON VALUE is true and forwarded when it is false;
\* with no field configured every item is forwarded.
C24_BlocksWhenTrue ==
    (blk_calls > 0 /\ blk_last.raised = None) =>
        /\ \A k \in 1..Len(BlkBatch) :
              HasField(block, BlkBatch[k]) => (InSeq(BlkBatch[k], BlkOut) <=> ~GateOf(block, BlkBatch[k]))
        /\ block.field = None => BlkOut = BlkBatch

\* ===================================================================
\* GetEmail: reader/_get_email.py
\* ===================================================================
DEFAULT_POLL_WAIT == 30

DEFAULT_POLL_WAIT_SLOW == 180

DEFAULT_POLL_COUNT == 10

\* a numeric option that was left at None
NoNumber == 0 - 1000

\* what one poll of the folder can end in: messages were found; the search
\* found none; the search status was not OK; connecting or logging in
\* raised; fetching a message raised
FOUND == "found"
EMPTY == "empty"
NOT_OK == "not_ok"
CONNECT_ERROR == "connect_error"
FETCH_ERROR == "fetch_error"

PollOutcomes == { FOUND, EMPTY, NOT_OK, CONNECT_ERROR, FETCH_ERROR }

EmlInit ==
    /\ \E w \in { NoNumber, 0 - 1, 0, 1 }, s \in { NoNumber, 0, 2 }, c \in { NoNumber, 0, 1, 2 },
          m \in { NoNumber, 0, MaxPolls - 1 } :
         getemail = [poll_wait |-> w, poll_wait_slow |-> s, poll_count |-> c, max_poll |-> m,
                     _polled |-> 0, _empty_poll_count |-> 0, _slow_message_displayed |-> FALSE]
    /\ eml_state = "constructed" /\ eml_polls = <<>>

\* GetEmail.initialize: the options are normalised, the counters reset
GetEmailNormalise(self) ==
    LET w1 == IF self.poll_wait = NoNumber THEN DEFAULT_POLL_WAIT ELSE self.poll_wait
        w2 == IF w1 < 0 THEN DEFAULT_POLL_WAIT ELSE w1
        s1 == IF self.poll_wait_slow = NoNumber THEN DEFAULT_POLL_WAIT_SLOW ELSE self.poll_wait_slow
        s2 == IF s1 < 0 THEN DEFAULT_POLL_WAIT_SLOW ELSE s1
        s3 == IF s2 < w2 THEN w2 ELSE s2
    IN  [self EXCEPT !.poll_wait = w2, !.poll_wait_slow = s3,
                     !.poll_count = IF @ = NoNumber THEN DEFAULT_POLL_COUNT ELSE @,
                     !.max_poll = IF @ = NoNumber THEN 0 - 1 ELSE @,
                     !._polled = 0, !._empty_poll_count = 0, !._slow_message_displayed = FALSE]

GetEmailInitialize ==
    /\ eml_state = "constructed"
    /\ getemail' = GetEmailNormalise(getemail)
    /\ eml_state' = "initialized"
    /\ UNCHANGED eml_polls
    /\ UNCHANGED <<drvVars, expVars, genVars, trgVars, subVars, stoVars, blkVars, wdVars, cronVars, outVars>>

\* GetEmail.has_finished
GetEmailHasFinished(self) == self.max_poll > 0 /\ self._polled >= self.max_poll

\* "slow down polling?": whether this read waits poll_wait_slow
SlowDown(self) == self._empty_poll_count > self.poll_count

\* GetEmail.read, run to its end, with the given outcome of the poll
GetEmailRead(self, outcome) ==
    LET slow == SlowDown(self)
        waited == [self EXCEPT !._slow_message_displayed = @ \/ slow]
        polled == IF outcome = CONNECT_ERROR THEN waited ELSE [waited EXCEPT !._polled = @ + 1]
    IN  [wait |-> IF slow THEN self.poll_wait_slow ELSE self.poll_wait,
         outcome |-> outcome,
         self |-> IF outcome = EMPTY THEN [polled EXCEPT !._empty_poll_count = @ + 1]
                  ELSE IF outcome \in { FOUND, FETCH_ERROR }
                  THEN [polled EXCEPT !._empty_poll_count = 0, !._slow_message_displayed = FALSE]
                  ELSE polled]

\* one round of the read loop: read is called while has_finished is false
GetEmailPoll ==
    /\ eml_state = "initialized"
    /\ ~GetEmailHasFinished(getemail)
    /\ Len(eml_polls) < MaxPolls
    /\ \E outcome \in PollOutcomes :
         LET r == GetEmailRead(getemail, outcome)
         IN  /\ getemail' = r.self
             /\ eml_polls' = Append(eml_polls, [wait |-> r.wait, outcome |-> r.outcome])
    /\ UNCHANGED eml_state
    /\ UNCHANGED <<drvVars, expVars, genVars, trgVars, subVars, stoVars, blkVars, wdVars, cronVars, outVars>>

InitGetEmail == EmlInit /\ DrvIdle /\ ExpIdle /\ GenIdle /\ TrgIdle /\ SubIdle /\ StoIdle /\ BlkIdle /\ WdIdle /\ CronIdle /\ OutIdle

NextGetEmail == GetEmailInitialize \/ GetEmailPoll

SpecGetEmail == InitGetEmail /\ [][NextGetEmail]_vars

\* the number of polls that found no messages since the last poll that
\* found one, looking at the first n polls
RECURSIVE EmptyPolls(_, _)
EmptyPolls(polls, n) ==
    IF n = 0 \/ polls[n].outcome \in { FOUND, FETCH_ERROR } THEN 0
    ELSE EmptyPolls(polls, n - 1) + (IF polls[n].outcome = EMPTY THEN 1 ELSE 0)

\* C25: a poll waits poll_wait_slow exactly when the number of polls without
\* messages since the last poll that found one has reached poll_count (and
\* there was such a poll); every other poll, the one after a poll that
\* found a message among them, waits poll_wait.
C25_SlowOnceThresholdReached ==
    eml_state = "initialized" =>
        \A i \in 1..Len(eml_polls) :
            LET empties == EmptyPolls(eml_polls, i - 1)
            IN  eml_polls[i].wait =
                    IF empties > 0 /\ empties >= getemail.poll_count
                    THEN getemail.poll_wait_slow ELSE getemail.poll_wait

\* ===================================================================
\* WatchDir: reader/_watch_dir.py
\* ===================================================================
EVENT_CREATED == "created"
EVENT_MODIFIED == "modified"
EVENTS == { EVENT_CREATED, EVENT_MODIFIED }

WATCH_ACTION_NOTHING == "nothing"
WATCH_ACTION_MOVE == "move"
WATCH_ACTION_DELETE == "delete"

\* the action option left at None
NoAction == "unset"

\* the files with a monitored extension that can turn up in the directory
WdFileNames == 1..MaxFiles

\* the reader is constructed with its options; the directory holds some
\* files already; _observer is None (FALSE: no observer is held)
WdInit ==
    /\ \E a \in { NoAction, WATCH_ACTION_NOTHING, WATCH_ACTION_MOVE, WATCH_ACTION_DELETE },
          m \in { NoNumber, 1 }, e \in (SUBSET EVENTS) \ { {} } :
         watchdir = [action |-> a, max_files |-> m, events |-> e, _observer |-> FALSE]
    /\ wd_state = "constructed" /\ wd_pc = "not_started" /\ wd_stopped = FALSE
    /\ wd_dir \in SUBSET WdFileNames /\ wd_made = wd_dir
    /\ wd_files = {} /\ wd_source = {}
    /\ wd_observers = 0 /\ wd_pending = {} /\ wd_cycle = [handed |-> {}, removed |-> {}]

\* WatchDir.initialize
WatchDirInitialize ==
    /\ wd_state = "constructed"
    /\ watchdir' = [watchdir EXCEPT !.action = IF @ = NoAction THEN WATCH_ACTION_MOVE ELSE @,
                                      !.max_files = IF @ = NoNumber THEN 0 - 1 ELSE @]
    /\ wd_state' = "initialized"
    /\ UNCHANGED <<wd_pc, wd_stopped, wd_dir, wd_made, wd_files, wd_source, wd_observers, wd_pending, wd_cycle>>
    /\ UNCHANGED <<drvVars, expVars, genVars, trgVars, subVars, stoVars, blkVars, emlVars, cronVars, outVars>>

\* WatchDir.list_files: the lists the listing of the directory can produce
ListFiles(self, dir) ==
    IF self.max_files > 0 /\ Cardinality(dir) > self.max_files
    THEN { l \in SUBSET dir : Cardinality(l) = self.max_files }
    ELSE { dir }

\* WatchDir.read up to the loop: an observer is made and started, the
\* directory is listed
WatchDirReadStart ==
    /\ wd_state = "initialized" /\ wd_pc = "not_started"
    /\ wd_observers' = wd_observers + 1
    /\ wd_files' \in ListFiles(watchdir, wd_dir)
    /\ wd_pc' = "loop"
    /\ UNCHANGED <<watchdir, wd_state, wd_stopped, wd_dir, wd_made, wd_source, wd_pending, wd_cycle>>
    /\ UNCHANGED <<drvVars, expVars, genVars, trgVars, subVars, stoVars, blkVars, emlVars, cronVars, outVars>>

\* the read loop, from its head to the end of the base reader's reading:
\* the file list is handed to the base reader as its source
WatchDirHandOver ==
    /\ wd_pc = "loop" /\ ~wd_stopped /\ wd_files # {}
    /\ wd_source' = wd_files
    /\ wd_cycle' = [handed |-> wd_files, removed |-> {}]
    /\ wd_pc' = "handed"
    /\ UNCHANGED <<watchdir, wd_state, wd_stopped, wd_dir, wd_made, wd_files, wd_observers, wd_pending>>
    /\ UNCHANGED <<drvVars, expVars, genVars, trgVars, subVars, stoVars, blkVars, emlVars, cronVars, outVars>>

\* "delete or move files": the files the loop removes from the directory
ToRemove(self, files) ==
    IF self.action \in { WATCH_ACTION_DELETE, WATCH_ACTION_MOVE } THEN files ELSE {}

\* the read loop, from "delete or move files" to the reset of the list
WatchDirApplyAction ==
    /\ wd_pc = "handed"
    /\ LET removed == ToRemove(watchdir, wd_files)
       IN  /\ wd_dir' = wd_dir \ removed
           /\ wd_cycle' = [wd_cycle EXCEPT !.removed = removed]
    /\ wd_files' = {}
    /\ wd_pc' = "loop"
    /\ UNCHANGED <<watchdir, wd_state, wd_stopped, wd_made, wd_source, wd_observers, wd_pending>>
    /\ UNCHANGED <<drvVars, expVars, genVars, trgVars, subVars, stoVars, blkVars, emlVars, cronVars, outVars>>

\* the read loop ends when the session is stopped
WatchDirReturn ==
    /\ wd_pc = "loop" /\ wd_stopped
    /\ wd_pc' = "returned"
    /\ UNCHANGED <<watchdir, wd_state, wd_stopped, wd_dir, wd_made, wd_files, wd_source, wd_observers, wd_pending, wd_cycle>>
    /\ UNCHANGED <<drvVars, expVars, genVars, trgVars, subVars, stoVars, blkVars, emlVars, cronVars, outVars>>

\* the caller stops the session
WdStop ==
    /\ wd_state = "initialized" /\ ~wd_stopped
    /\ wd_stopped' = TRUE
    /\ UNCHANGED <<watchdir, wd_state, wd_pc, wd_dir, wd_made, wd_files, wd_source, wd_observers, wd_pending, wd_cycle>>
    /\ UNCHANGED <<drvVars, expVars, genVars, trgVars, subVars, stoVars, blkVars, emlVars, cronVars, outVars>>

\* a file turns up in the directory; a running observer sees it created
\* and modified
WdFileCreated ==
    /\ \E f \in WdFileNames \ wd_made :
         /\ wd_dir' = wd_dir \cup { f }
         /\ wd_made' = wd_made \cup { f }
    /\ wd_pending' = IF wd_observers > 0 THEN EVENTS ELSE wd_pending
    /\ UNCHANGED <<watchdir, wd_state, wd_pc, wd_stopped, wd_files, wd_source, wd_observers, wd_cycle>>
    /\ UNCHANGED <<drvVars, expVars, genVars, trgVars, subVars, stoVars, blkVars, emlVars, cronVars, outVars>>

\* Handler.on_created, on the observer thread
HandlerOnCreated ==
    /\ wd_observers > 0 /\ EVENT_CREATED \in wd_pending
    /\ wd_pending' = wd_pending \ { EVENT_CREATED }
    /\ IF EVENT_CREATED \in watchdir.events
       THEN wd_files' \in ListFiles(watchdir, wd_dir)
       ELSE wd_files' = wd_files
    /\ UNCHANGED <<watchdir, wd_state, wd_pc, wd_stopped, wd_dir, wd_made, wd_source, wd_observers, wd_cycle>>
    /\ UNCHANGED <<drvVars, expVars, genVars, trgVars, subVars, stoVars, blkVars, emlVars, cronVars, outVars>>

\* Handler.on_modified, on the observer thread
HandlerOnModified ==
    /\ wd_observers > 0 /\ EVENT_MODIFIED \in wd_pending
    /\ wd_pending' = wd_pending \ { EVENT_MODIFIED }
    /\ IF EVENT_MODIFIED \in watchdir.events
       THEN wd_files' \in ListFiles(watchdir, wd_dir)
       ELSE wd_files' = wd_files
    /\ UNCHANGED <<watchdir, wd_state, wd_pc, wd_stopped, wd_dir, wd_made, wd_source, wd_observers, wd_cycle>>
    /\ UNCHANGED <<drvVars, expVars, genVars, trgVars, subVars, stoVars, blkVars, emlVars, cronVars, outVars>>

\* WatchDir.finalize, called when read has not started or has returned
WatchDirFinalize ==
    /\ wd_state = "initialized" /\ wd_pc \in { "not_started", "returned" }
    /\ wd_state' = "finalized"
    /\ wd_source' = {}
    /\ IF watchdir._observer
       THEN wd_observers' = 0 /\ wd_pending' = {}
       ELSE UNCHANGED <<wd_observers, wd_pending>>
    /\ UNCHANGED <<watchdir, wd_pc, wd_stopped, wd_dir, wd_made, wd_files, wd_cycle>>
    /\ UNCHANGED <<drvVars, expVars, genVars, trgVars, subVars, stoVars, blkVars, emlVars, cronVars, outVars>>

InitWatchDir == WdInit /\ DrvIdle /\ ExpIdle /\ GenIdle /\ TrgIdle /\ SubIdle /\ StoIdle /\ BlkIdle /\ EmlIdle /\ CronIdle /\ OutIdle

NextWatchDir ==
    \/ WatchDirInitialize \/ WatchDirReadStart \/ WatchDirHandOver \/ WatchDirApplyAction
    \/ WatchDirReturn \/ WdStop \/ WdFileCreated \/ HandlerOnCreated \/ HandlerOnModified
    \/ WatchDirFinalize

SpecWatchDir == InitWatchDir /\ [][NextWatchDir]_vars

\* C26: whatever the observer thread does in between, every file the read
\* loop deletes or moves in a cycle was in the file list handed to the base
\* reader as its source in that cycle.
C26_RemovedWereHanded == wd_cycle.removed \subseteq wd_cycle.handed

\* C27: after finalize has returned no observer is running, and no later
\* file event changes the file list of the reader.
C27_ObserverStopped ==
    /\ [](wd_state = "finalized" => wd_observers = 0)
    /\ [][wd_state = "finalized" => wd_files' = wd_files]_vars

\* ===================================================================
\* Cron: reader/_cron.py
\* ===================================================================
\* A cron expression is known by its period: it fires at the multiples of
\* the period. _iter holds the time the iterator stands at.
CronPeriods == { 1, 2, 3 }

CronInit ==
    /\ \E p \in CronPeriods : cron = [period |-> p, _iter |-> 0]
    /\ cron_state = "constructed" /\ cron_pc = "not_started" /\ cron_now \in 0..1
    /\ cron_stopped = FALSE /\ cron_next = 0 /\ cron_out = <<>>

\* Cron.initialize: the iterator starts at the current time
CronInitialize ==
    /\ cron_state = "constructed"
    /\ cron' = [cron EXCEPT !._iter = cron_now]
    /\ cron_state' = "initialized"
    /\ UNCHANGED <<cron_pc, cron_now, cron_stopped, cron_next, cron_out>>
    /\ UNCHANGED <<drvVars, expVars, genVars, trgVars, subVars, stoVars, blkVars, emlVars, wdVars, outVars>>

\* croniter.get_next: the first firing time after the one the iterator stands at
GetNext(self) == (self._iter \div self.period + 1) * self.period

\* read, from the head of the outer loop to the wait
CronReadNext ==
    /\ cron_state = "initialized" /\ cron_pc \in { "not_started", "resumed" }
    /\ ~cron_stopped
    /\ cron_next' = GetNext(cron)
    /\ cron' = [cron EXCEPT !._iter = GetNext(cron)]
    /\ cron_pc' = "waiting"
    /\ UNCHANGED <<cron_state, cron_now, cron_stopped, cron_out>>
    /\ UNCHANGED <<drvVars, expVars, genVars, trgVars, subVars, stoVars, blkVars, emlVars, wdVars, outVars>>

\* the condition of the inner loop: keep sleeping
CronWaits(now, next_timestamp, stopped) == now < next_timestamp /\ ~stopped

\* read, at the end of the wait: the timestamp is yielded
CronYield ==
    /\ cron_pc = "waiting"
    /\ ~CronWaits(cron_now, cron_next, cron_stopped)
    /\ cron_out' = Append(cron_out, [timestamp |-> cron_next, at |-> cron_now, stopped |-> cron_stopped])
    /\ cron_pc' = "yielded"
    /\ UNCHANGED <<cron, cron_state, cron_now, cron_stopped, cron_next>>
    /\ UNCHANGED <<drvVars, expVars, genVars, trgVars, subVars, stoVars, blkVars, emlVars, wdVars, outVars>>

\* the consumer asks for the next item: the generator goes on behind the yield
CronResume ==
    /\ cron_pc = "yielded"
    /\ cron_pc' = "resumed"
    /\ UNCHANGED <<cron, cron_state, cron_now, cron_stopped, cron_next, cron_out>>
    /\ UNCHANGED <<drvVars, expVars, genVars, trgVars, subVars, stoVars, blkVars, emlVars, wdVars, outVars>>

\* read, at the head of the outer loop with the session stopped: it returns
CronReturn ==
    /\ cron_state = "initialized" /\ cron_pc \in { "not_started", "resumed" }
    /\ cron_stopped
    /\ cron_pc' = "returned"
    /\ UNCHANGED <<cron, cron_state, cron_now, cron_stopped, cron_next, cron_out>>
    /\ UNCHANGED <<drvVars, expVars, genVars, trgVars, subVars, stoVars, blkVars, emlVars, wdVars, outVars>>

\* the caller stops the session
CronStop ==
    /\ cron_state = "initialized" /\ ~cron_stopped
    /\ cron_stopped' = TRUE
    /\ UNCHANGED <<cron, cron_state, cron_pc, cron_now, cron_next, cron_out>>
    /\ UNCHANGED <<drvVars, expVars, genVars, trgVars, subVars, stoVars, blkVars, emlVars, wdVars, outVars>>

\* time passes
CronTick ==
    /\ cron_now < MaxTime
    /\ cron_now' = cron_now + 1
    /\ UNCHANGED <<cron, cron_state, cron_pc, cron_stopped, cron_next, cron_out>>
    /\ UNCHANGED <<drvVars, expVars, genVars, trgVars, subVars, stoVars, blkVars, emlVars, wdVars, outVars>>

InitCron == CronInit /\ DrvIdle /\ ExpIdle /\ GenIdle /\ TrgIdle /\ SubIdle /\ StoIdle /\ BlkIdle /\ EmlIdle /\ WdIdle /\ OutIdle

NextCron ==
    \/ CronInitialize \/ CronReadNext \/ CronYield \/ CronResume \/ CronReturn \/ CronStop \/ CronTick

SpecCron == InitCron /\ [][NextCron]_vars

\* C29: every timestamp read has yielded had been reached when it was
\* yielded, and the session was not stopped at that moment.
C29_YieldsOnlyReached ==
    \A i \in 1..Len(cron_out) : cron_out[i].at >= cron_out[i].timestamp /\ ~cron_out[i].stopped

\* ===================================================================
\* LogData and TextFileWriter: filter/_log_data.py, writer/_text_file.py
\* ===================================================================
LOG_DATA == "log-data"
TO_TEXT_FILE == "to-text-file"

\* what can stand at a path: nothing, a directory, a file with its lines
NoPath == [kind |-> "absent", lines |-> <<>>]

DirPath == [kind |-> "dir", lines |-> <<>>]

FilePath(lines) == [kind |-> "file", lines |-> lines]

NotADirectoryError == Msg("NotADirectoryError")

\* the plugin is constructed with its options (output_file: whether log-data
\* was given a file; to-text-file always has a path), something or nothing
\* stands at the path
OutInit ==
    /\ \/ \E o, d \in BOOLEAN :
             out_plugin = [kind |-> LOG_DATA, output_file |-> o, delete_on_initialize |-> d, append |-> FALSE]
       \/ \E d, a \in BOOLEAN :
             out_plugin = [kind |-> TO_TEXT_FILE, output_file |-> TRUE, delete_on_initialize |-> d, append |-> a]
    /\ out_state = "constructed" /\ out_error = None /\ out_calls = 0
    /\ out_path \in { NoPath, DirPath, FilePath(<<>>), FilePath(<<X>>), FilePath(<<X, Y>>) }

\* os.path.exists(path) and os.path.isfile(path)
IsFile(path) == path.kind = "file"

\* LogData.initialize
LogDataInitialize ==
    /\ out_plugin.kind = LOG_DATA /\ out_state = "constructed"
    /\ out_path' = IF out_plugin.output_file /\ IsFile(out_path) THEN NoPath ELSE out_path
    /\ out_state' = "initialized"
    /\ UNCHANGED <<out_plugin, out_error, out_calls>>
    /\ UNCHANGED <<drvVars, expVars, genVars, trgVars, subVars, stoVars, blkVars, emlVars, wdVars, cronVars>>

\* TextFileWriter.initialize: os.rmdir on a file raises and removes nothing
TextFileWriterInitialize ==
    /\ out_plugin.kind = TO_TEXT_FILE /\ out_state = "constructed"
    /\ IF IsFile(out_path)
       THEN out_state' = "failed" /\ out_error' = NotADirectoryError
       ELSE out_state' = "initialized" /\ out_error' = None
    /\ UNCHANGED <<out_plugin, out_path, out_calls>>
    /\ UNCHANGED <<drvVars, expVars, genVars, trgVars, subVars, stoVars, blkVars, emlVars, wdVars, cronVars>>

\* open(path, "a") and open(path, "w") followed by the write of one line
AppendLine(path, line) == FilePath((IF IsFile(path) THEN path.lines ELSE <<>>) \o <<line>>)

WriteLine(path, line) == FilePath(<<line>>)

\* LogData._do_process on one item: the line goes to the file, or to the
\* standard output when no file is given (open raises on a directory: no
\* call is modelled there)
LogDataProcess ==
    /\ out_plugin.kind = LOG_DATA /\ out_state = "initialized"
    /\ out_calls < MaxProcess /\ out_path.kind # "dir"
    /\ \E item \in StoValues :
         out_path' = IF out_plugin.output_file THEN AppendLine(out_path, item) ELSE out_path
    /\ out_calls' = out_calls + 1
    /\ UNCHANGED <<out_plugin, out_state, out_error>>
    /\ UNCHANGED <<drvVars, expVars, genVars, trgVars, subVars, stoVars, blkVars, emlVars, wdVars, cronVars>>

\* TextFileWriter.write_stream on one item
TextFileWriterWriteStream ==
    /\ out_plugin.kind = TO_TEXT_FILE /\ out_state = "initialized"
    /\ out_calls < MaxProcess /\ out_path.kind # "dir"
    /\ \E item \in StoValues :
         out_path' = IF out_plugin.append THEN AppendLine(out_path, item) ELSE WriteLine(out_path, item)
    /\ out_calls' = out_calls + 1
    /\ UNCHANGED <<out_plugin, out_state, out_error>>
    /\ UNCHANGED <<drvVars, expVars, genVars, trgVars, subVars, stoVars, blkVars, emlVars, wdVars, cronVars>>

InitOutput == OutInit /\ DrvIdle /\ ExpIdle /\ GenIdle /\ TrgIdle /\ SubIdle /\ StoIdle /\ BlkIdle /\ EmlIdle /\ WdIdle /\ CronIdle

NextOutput == LogDataInitialize \/ TextFileWriterInitialize \/ LogDataProcess \/ TextFileWriterWriteStream

SpecOutput == InitOutput /\ [][NextOutput]_vars

\* C30: initialize of log-data and of to-text-file leaves what stands at the
\* path of the output file as it is unless delete_on_initialize is set; an
\* existing file is removed by initialize only with the option set.
C30_DeleteOnlyWhenSet ==
    [][(out_state = "constructed" /\ out_state' # "constructed" /\ ~out_plugin.delete_on_initialize)
          => out_path' = out_path]_vars

====
